---- MODULE Spec2Model ----
(***************************************************************************)
(* Model of dnload.py (faemiyah-demoscene): the platform-variable table,   *)
(* AssemblerVariable / AssemblerSegment with the byte-level overlap pass,  *)
(* the fake .bss construction of AssemblerFile and the ELF composition of  *)
(* main() in "maximum" mode.                                               *)
(*                                                                         *)
(* Python values are modelled as records of one shape:                     *)
(*   [t, n, s, l]  t = "int"  an integer n                                 *)
(*                 t = "big"  a non-negative integer of 2^31 or more,      *)
(*                            kept as its little-endian base-256 digits l  *)
(*                 t = "sym"  a string s holding a symbolic expression     *)
(*                 t = "str"  a string s holding a quoted string literal   *)
(*                 t = "pv"   a PlatformVar object naming variable s       *)
(*                 t = "list" a tuple of integers l                        *)
(* Falsy descriptions and names ("" and None) are the empty sequence; a    *)
(* single string is a one-element sequence, a Python list a sequence.      *)
(***************************************************************************)
EXTENDS Integers, Sequences, FiniteSets, TLC

VARIABLES
  osname,              \* os.uname()[0]
  osarch,              \* os.uname()[4]
  platform_variables,  \* the global dict platform_variables
  pc,                  \* position of the running script
  avar,                \* an AssemblerVariable under construction
  bytestream,          \* result of avar.deconstruct()
  rvar,                \* the head of bytestream after reconstruct()
  segments,            \* list of AssemblerSegment handed to merge_segments
  ii,                  \* loop index of merge_segments (0-based)
  prev,                \* segments (sections) before the last merge (crunch) step
  merged,              \* index and overlap of the last AssemblerSegment.merge
  libraries,           \* sorted library list of main()
  sections,            \* AssemblerFile.sections
  seg,                 \* the named AssemblerSegment objects of main()
  bss,                 \* locals of generate_fake_bss after it returned
  output,              \* what main() wrote to <output>.final.S
  objects,             \* the zero-initialised objects of the compiled source
  called               \* the last call made on the segment under test

platVars == <<osname, osarch, platform_variables>>
varVars == <<avar, bytestream, rvar>>
mergeVars == <<segments, ii, prev, merged>>
mainVars == <<libraries, sections, seg, bss, output, objects>>

vars == <<platVars, pc, varVars, mergeVars, mainVars, called>>

----------------------------------------------------------------------------
(* Values *)

\* e bound once to v in F(v).
Let1(e, F(_)) == CHOOSE y \in {F(v) : v \in {e}} : TRUE

IntV(n) == [t |-> "int", n |-> n, s |-> "", l |-> <<>>]
BigV(l) == [t |-> "big", n |-> 0, s |-> "", l |-> l]
SymV(s) == [t |-> "sym", n |-> 0, s |-> s, l |-> <<>>]
StrV(s) == [t |-> "str", n |-> 0, s |-> s, l |-> <<>>]
PV(s) == [t |-> "pv", n |-> 0, s |-> s, l |-> <<>>]
ListV(l) == [t |-> "list", n |-> 0, s |-> "", l |-> l]
NoneV == [t |-> "none", n |-> 0, s |-> "", l |-> <<>>]

----------------------------------------------------------------------------
(* PlatformVar *)

platform_mapping ==
  [k \in {"amd64", "freebsd", "i386", "i686", "ia32", "linux", "x86_64"} |->
     CASE k = "amd64" -> "64-bit"
       [] k = "freebsd" -> "FreeBSD"
       [] k = "i386" -> "ia32"
       [] k = "i686" -> "ia32"
       [] k = "ia32" -> "32-bit"
       [] k = "linux" -> "Linux"
       [] k = "x86_64" -> "amd64"]

initial_platform_variables ==
  [name \in {"addr", "align", "bom", "e_machine", "ei_class", "ei_osabi",
             "entry", "interp", "memory_page", "phdr_count"} |->
     CASE name = "addr" -> ("32-bit" :> IntV(4)) @@ ("64-bit" :> IntV(8))
       [] name = "align" -> ("32-bit" :> IntV(4)) @@ ("64-bit" :> IntV(8))
                            @@ ("amd64" :> IntV(1)) @@ ("ia32" :> IntV(1))
       [] name = "bom" -> ("amd64" :> StrV("<")) @@ ("ia32" :> StrV("<"))
       [] name = "e_machine" -> ("amd64" :> IntV(62)) @@ ("ia32" :> IntV(3))
       [] name = "ei_class" -> ("32-bit" :> IntV(1)) @@ ("64-bit" :> IntV(2))
       [] name = "ei_osabi" -> ("FreeBSD" :> IntV(9)) @@ ("Linux" :> IntV(3))
       [] name = "entry" -> ("32-bit" :> IntV(33554432)) @@ ("64-bit" :> IntV(4194304))
       [] name = "interp" -> ("FreeBSD" :> StrV("\"/libexec/ld-elf.so.1\""))
                             @@ ("Linux-32-bit" :> StrV("\"/lib/ld-linux.so.2\""))
                             @@ ("Linux-64-bit" :> StrV("\"/lib64/ld-linux-x86-64.so.2\""))
       [] name = "memory_page" -> ("32-bit" :> IntV(4096)) @@ ("64-bit" :> IntV(2097152))
       [] name = "phdr_count" -> ("default" :> IntV(3))]

RECURSIVE platform_map(_)
platform_map(op) ==
  IF op \in DOMAIN platform_mapping THEN platform_map(platform_mapping[op]) ELSE op

\* The inner while loop of PlatformVar.get: follow the mapping chain from key
\* k and return the first binding found, NoneV when the chain ends.
RECURSIVE PlatformChain(_, _)
PlatformChain(var, k) ==
  IF k \in DOMAIN platform_mapping
  THEN LET k2 == platform_mapping[k]
       IN IF k2 \in DOMAIN var THEN var[k2] ELSE PlatformChain(var, k2)
  ELSE NoneV

RECURSIVE PlatformScan(_, _, _)
PlatformScan(var, platform, j) ==
  IF j > Len(platform)
  THEN IF "default" \in DOMAIN var THEN var["default"] ELSE NoneV
  ELSE IF platform[j] \in DOMAIN var THEN var[platform[j]]
       ELSE LET c == PlatformChain(var, platform[j])
            IN IF c.t # "none" THEN c ELSE PlatformScan(var, platform, j + 1)

\* Mutant: only the ends of the mapping chains are looked up.
PlatformVarGetMapped(name) ==
  IF name \notin DOMAIN platform_variables THEN NoneV
  ELSE LET var == platform_variables[name]
           keys == <<platform_map(osname), platform_map(osarch),
                     platform_map(osname) \o "-" \o platform_map(osarch), "default">>
           hit == {j \in 1..4 : keys[j] \in DOMAIN var}
       IN IF hit = {} THEN NoneV
          ELSE var[keys[CHOOSE j \in hit : \A x \in hit : j <= x]]

\* PlatformVar(name).get(); NoneV stands for the RuntimeError raised when
\* nothing matches.
PlatformVarGet(name) ==
  IF name \notin DOMAIN platform_variables THEN NoneV
  ELSE PlatformScan(platform_variables[name],
                    <<osname, osarch, platform_map(osname) \o "-" \o platform_map(osarch)>>,
                    1)

\* int(PlatformVar(name)) succeeds exactly for integer bindings.
PlatformVarIsInt(name) == PlatformVarGet(name).t = "int"

\* Mutant: the replacement is lost.
replace_platform_variable_lost(pvars, name, op) == pvars

replace_platform_variable(pvars, name, op) ==
  [pvars EXCEPT ![name] = ("default" :> IntV(op))]

RECURSIVE osarch_match_chain(_, _)
osarch_match_chain(op, k) ==
  IF k \in DOMAIN platform_mapping
  THEN platform_mapping[k] = op \/ osarch_match_chain(op, platform_mapping[k])
  ELSE FALSE

osarch_match(op) == op = osarch \/ osarch_match_chain(op, osarch)
osarch_is_32_bit == osarch_match("32-bit")
osarch_is_64_bit == osarch_match("64-bit")
osname_is_freebsd == osname = "FreeBSD"

----------------------------------------------------------------------------
(* AssemblerVariable *)

\* AssemblerVariable.__init__; a size given as PlatformVar("addr") is stored
\* as the integer int() gives for it (the binding never changes).
AssemblerVariable(desc, size, value, name) ==
  [desc |-> desc, size |-> size, value |-> value, name |-> name,
   original_size |-> -1, label_pre |-> <<>>, label_post |-> <<>>]

add_label_pre(v, op) == [v EXCEPT !.label_pre = @ \o <<op>>]
add_label_post(v, op) == [v EXCEPT !.label_post = @ \o <<op>>]

\* list.remove(op): drops the first occurrence only.
RECURSIVE ListRemove(_, _)
ListRemove(l, op) ==
  IF l = <<>> THEN <<>>
  ELSE IF Head(l) = op THEN Tail(l) ELSE <<Head(l)>> \o ListRemove(Tail(l), op)

remove_label_pre(v, op) == [v EXCEPT !.label_pre = ListRemove(@, op)]
remove_label_post(v, op) == [v EXCEPT !.label_post = ListRemove(@, op)]

\* 256^i for the byte positions whose weight fits the model's integers.
Pow256(i) == CASE i = 0 -> 1 [] i = 1 -> 256 [] i = 2 -> 65536 [] i = 3 -> 16777216

\* Byte i (0-based, little-endian) of the two's-complement image of op: what
\* struct.pack("<h"/"<i"/"<q") gives for op < 0 and "<H"/"<I"/"<Q" for op >= 0.
PackByte(op, i) ==
  IF op >= 0
  THEN IF i >= 4 THEN 0 ELSE (op \div Pow256(i)) % 256
  ELSE IF i >= 4 THEN 255 ELSE 255 - (((-op - 1) \div Pow256(i)) % 256)

\* deconstruct_single: int_size bytes, bom "<".
deconstruct_single(size, op) ==
  IF op.t = "big" THEN op.l
  ELSE [i \in 1..size |-> PackByte(op.n, i - 1)]

\* int(self.value) raises ValueError for a string that is no number and for
\* a PlatformVar bound to a string.
IntOf(value) ==
  CASE value.t = "int" -> value
    [] value.t = "big" -> value
    [] value.t = "pv" -> PlatformVarGet(value.s)
    [] OTHER -> NoneV

RaisesValueError(value) ==
  CASE value.t = "list" -> FALSE
    [] value.t = "pv" -> ~PlatformVarIsInt(value.s)
    [] OTHER -> value.t \notin {"int", "big"}

RECURSIVE PackList(_, _)
PackList(size, l) ==
  IF l = <<>> THEN <<>>
  ELSE deconstruct_single(size, IntV(Head(l))) \o PackList(size, Tail(l))

\* The byte string lst of deconstruct().
PackValue(v) ==
  IF v.value.t = "list" THEN PackList(v.size, v.value.l)
  ELSE deconstruct_single(v.size, IntOf(v.value))

\* AssemblerVariable.deconstruct for a value that does not raise: the list of
\* byte variables, or the variable itself when it packs to at most one byte.
deconstruct(v) ==
  LET lst == PackValue(v)
      n == Len(lst)
  IN IF n <= 1 THEN <<v>>
     ELSE [i \in 1..n |->
             IF i = 1
             THEN [desc |-> v.desc, size |-> 1, value |-> IntV(lst[i]), name |-> v.name,
                   original_size |-> v.size, label_pre |-> v.label_pre, label_post |-> <<>>]
             ELSE IF i = n
             THEN [desc |-> <<>>, size |-> 1, value |-> IntV(lst[i]), name |-> <<>>,
                   original_size |-> -1, label_pre |-> <<>>, label_post |-> v.label_post]
             ELSE AssemblerVariable(<<>>, 1, IntV(lst[i]), <<>>)]

\* listify on descriptions, names and label lists: a falsy side gives the
\* other side; otherwise the two are joined into one list.
listify(lhs, rhs) ==
  IF lhs = <<>> THEN rhs
  ELSE IF rhs = <<>> THEN lhs
  ELSE lhs \o rhs

\* self.value != op.value of mergable: integers compare by number, tuples by
\* content, strings by content; two PlatformVar objects are never equal.
ValueEq(a, b) == a.t = b.t /\ a.t # "pv" /\ a = b

\* Mutant: two bytes are mergable whatever their values.
mergable_any_value(a, b) == a.size = b.size

mergable(a, b) == a.size = b.size /\ ValueEq(a.value, b.value)

\* Mutant: the pre-labels of the absorbed byte are not taken over.
var_merge_without_label_pre(a, op) ==
  [a EXCEPT !.desc = listify(a.desc, op.desc),
            !.name = listify(a.name, op.name),
            !.label_post = listify(a.label_post, op.label_post)]

\* AssemblerVariable.merge
var_merge(a, op) ==
  [a EXCEPT !.desc = listify(a.desc, op.desc),
            !.name = listify(a.name, op.name),
            !.label_pre = listify(a.label_pre, op.label_pre),
            !.label_post = listify(a.label_post, op.label_post)]

\* struct.unpack("<H"/"<I"/"<Q"): the unsigned number of the bytes; kept as
\* digits when it is 2^31 or more.
UnpackFits(bs) ==
  /\ \A i \in 1..Len(bs) : i > 4 => bs[i] = 0
  /\ Len(bs) >= 4 => bs[4] < 128

RECURSIVE UnpackSum(_, _)
UnpackSum(bs, i) ==
  IF i > Len(bs) \/ i > 4 THEN 0
  ELSE bs[i] * Pow256(i - 1) + UnpackSum(bs, i + 1)

Unpack(bs) == IF UnpackFits(bs) THEN IntV(UnpackSum(bs, 1)) ELSE BigV(bs)

\* The for loop of AssemblerVariable.reconstruct from iteration j (0-based):
\* self is the variable being rebuilt, ret the bytes collected so far.
RECURSIVE ReconstructLoop(_, _, _, _, _)
ReconstructLoop(self, lst, j, original_size, ret) ==
  IF j >= original_size - 1
  THEN [ok |-> TRUE, self |-> self, ret |-> ret]
  ELSE LET op == lst[j + 1]
           fail == [ok |-> FALSE, self |-> self, ret |-> ret]
       IN IF op.name # <<>> THEN fail
          ELSE IF op.label_pre # <<>> THEN fail
          ELSE IF op.label_post # <<>> /\ (original_size - 2) # j THEN fail
          ELSE LET self2 == IF op.label_post # <<>>
                            THEN [self EXCEPT !.label_post = listify(@, op.label_post)]
                            ELSE self
                   fail2 == [ok |-> FALSE, self |-> self2, ret |-> ret]
               IN IF op.desc # <<>> THEN fail2
                  ELSE IF op.original_size # -1 THEN fail2
                  ELSE ReconstructLoop(self2, lst, j + 1, original_size,
                                       ret \o <<op.value.n>>)

\* AssemblerVariable.reconstruct(lst): n is the return value (0 for False,
\* else the number of variables consumed from lst), self the variable after
\* the call.
var_reconstruct(v, lst) ==
  LET original_size == v.original_size
      self == [v EXCEPT !.original_size = -1]
  IN IF 1 >= original_size THEN [n |-> 0, self |-> self]
     ELSE IF Len(lst) < original_size - 1 THEN [n |-> 0, self |-> self]
     ELSE LET r == ReconstructLoop(self, lst, 0, original_size, <<v.value.n>>)
          IN IF ~r.ok THEN [n |-> 0, self |-> r.self]
             ELSE [n |-> original_size - 1,
                   self |-> [r.self EXCEPT
                               !.value = IF original_size \in {2, 4, 8}
                                         THEN Unpack(r.ret) ELSE @,
                               !.size = original_size]]

----------------------------------------------------------------------------
(* AssemblerSegment *)

end_label(name) == name \o "_end"

\* refresh_name_label: the name label goes off every variable and onto the
\* first one.
refresh_name_label(sg) ==
  LET cleared == [i \in 1..Len(sg.data) |-> remove_label_pre(sg.data[i], sg.name)]
  IN [sg EXCEPT !.data = IF cleared = <<>> THEN <<>>
                         ELSE <<add_label_pre(cleared[1], sg.name)>> \o Tail(cleared)]

\* refresh_name_end_label: the same for <name>_end and the last variable.
refresh_name_end_label(sg) ==
  LET n == Len(sg.data)
      cleared == [i \in 1..n |-> remove_label_post(sg.data[i], end_label(sg.name))]
  IN [sg EXCEPT !.data = IF n = 0 THEN <<>>
                         ELSE [cleared EXCEPT ![n] = add_label_post(@, end_label(sg.name))]]

\* AssemblerSegment.add_data(op), op already made an AssemblerVariable.
add_data(sg, v) ==
  refresh_name_end_label(refresh_name_label([sg EXCEPT !.data = @ \o <<v>>]))

RECURSIVE add_all(_, _)
add_all(sg, vs) == IF vs = <<>> THEN sg ELSE add_all(add_data(sg, Head(vs)), Tail(vs))

\* AssemblerSegment.__init__ from a template tuple (name, description,
\* variables...).
AssemblerSegment(name, desc, vs) ==
  add_all([name |-> name, desc |-> desc, data |-> <<>>], vs)

\* deconstruct_head: (byte stream, untouched rest).
RECURSIVE deconstruct_head_loop(_, _, _)
deconstruct_head_loop(data, j, ret) ==
  IF j > Len(data) THEN <<ret, <<>>>>
  ELSE IF RaisesValueError(data[j].value) THEN <<ret, SubSeq(data, j, Len(data))>>
  ELSE deconstruct_head_loop(data, j + 1, ret \o deconstruct(data[j]))

deconstruct_head(sg) == deconstruct_head_loop(sg.data, 1, <<>>)

\* deconstruct_tail: (untouched front, byte stream).
RECURSIVE deconstruct_tail_loop(_, _, _)
deconstruct_tail_loop(data, j, ret) ==
  IF j < 1 THEN <<<<>>, ret>>
  ELSE IF RaisesValueError(data[j].value) THEN <<SubSeq(data, 1, j), ret>>
  ELSE deconstruct_tail_loop(data, j - 1, deconstruct(data[j]) \o ret)

deconstruct_tail(sg) == deconstruct_tail_loop(sg.data, Len(sg.data), <<>>)

segment_empty(sg) == 0 >= Len(sg.data)

\* AssemblerSegment.reconstruct: rebuild data from a stream of variables.
RECURSIVE seg_reconstruct_loop(_, _)
seg_reconstruct_loop(stream, data) ==
  IF Len(stream) = 0 THEN data
  ELSE LET r == var_reconstruct(Head(stream), Tail(stream))
           rest == Tail(stream)
       IN seg_reconstruct_loop(SubSeq(rest, r.n + 1, Len(rest)), data \o <<r.self>>)

seg_reconstruct(sg, stream) == [sg EXCEPT !.data = seg_reconstruct_loop(stream, <<>>)]

Min(a, b) == IF a <= b THEN a ELSE b

\* Mutant: the search stops at the first count that is mergable.
highest_mergable_first(src, dst) ==
  LET n == Len(src)
      ok == {k \in 1..Min(n, Len(dst)) : \A j \in 1..k : mergable(src[n - k + j], dst[j])}
  IN IF ok = {} THEN 0 ELSE CHOOSE k \in ok : \A m \in ok : k <= m

\* The search loop of AssemblerSegment.merge: for ii in range(min(..)) the
\* last ii + 1 bytes of src are compared with the first ii + 1 of dst, and
\* highest_mergable is overwritten whenever all of them are mergable.
RECURSIVE highest_mergable_loop(_, _, _, _)
highest_mergable_loop(src, dst, i, highest) ==
  IF i >= Min(Len(src), Len(dst)) THEN highest
  ELSE highest_mergable_loop(src, dst, i + 1,
         IF \A jj \in 0..i : mergable(src[Len(src) - i + jj], dst[jj + 1])
         THEN i + 1 ELSE highest)

highest_mergable(src, dst) == highest_mergable_loop(src, dst, 0, 0)

\* Mutant: one byte more than the overlap is cut from the head of op.
seg_merge_cut_one_more(self, op) ==
  LET t == deconstruct_tail(self)
      h == deconstruct_head(op)
      k == highest_mergable(t[2], h[1])
      n == Len(t[2])
      src2 == [i \in 1..n |->
                 IF i > n - k THEN var_merge(t[2][i], h[1][i - (n - k)]) ELSE t[2][i]]
  IN IF 0 >= k THEN [ok |-> FALSE, k |-> 0, self |-> self, op |-> op]
     ELSE [ok |-> TRUE, k |-> k,
           self |-> seg_reconstruct(self, t[1] \o src2),
           op |-> seg_reconstruct(op, SubSeq(h[1], k + 2, Len(h[1])) \o h[2])]

\* Mutant: without an overlap the two segments are left as the byte streams
\* they were deconstructed into.
seg_merge_left_deconstructed(self, op) ==
  LET t == deconstruct_tail(self)
      h == deconstruct_head(op)
      k == highest_mergable(t[2], h[1])
      n == Len(t[2])
      src2 == [i \in 1..n |->
                 IF i > n - k THEN var_merge(t[2][i], h[1][i - (n - k)]) ELSE t[2][i]]
  IN IF 0 >= k THEN [ok |-> FALSE, k |-> 0,
                     self |-> [self EXCEPT !.data = t[1] \o t[2]],
                     op |-> [op EXCEPT !.data = h[1] \o h[2]]]
     ELSE [ok |-> TRUE, k |-> k,
           self |-> seg_reconstruct(self, t[1] \o src2),
           op |-> seg_reconstruct(op, SubSeq(h[1], k + 1, Len(h[1])) \o h[2])]

\* AssemblerSegment.merge(op): ok is the return value, k the overlap, self
\* and op the two segments after the call.
seg_merge(self, op) ==
  LET t == deconstruct_tail(self)
      h == deconstruct_head(op)
      head_src == t[1]
      bytestream_src == t[2]
      bytestream_dst == h[1]
      tail_dst == h[2]
      k == highest_mergable(bytestream_src, bytestream_dst)
      n == Len(bytestream_src)
      src2 == [i \in 1..n |->
                 IF i > n - k THEN var_merge(bytestream_src[i], bytestream_dst[i - (n - k)])
                 ELSE bytestream_src[i]]
      dst2 == SubSeq(bytestream_dst, k + 1, Len(bytestream_dst))
  IN IF 0 >= k THEN [ok |-> FALSE, k |-> 0, self |-> self, op |-> op]
     ELSE [ok |-> TRUE, k |-> k,
           self |-> seg_reconstruct(self, head_src \o src2),
           op |-> seg_reconstruct(op, dst2 \o tail_dst)]

RemoveAt(l, j) == SubSeq(l, 1, j - 1) \o SubSeq(l, j + 1, Len(l))

\* Mutant: the index does not advance when merge returns False.
merge_segments_step_stay(lst, i) ==
  Let1(seg_merge(lst[i + 1], lst[i + 2]), LAMBDA r :
    IF r.ok
    THEN IF segment_empty(r.op)
         THEN [lst |-> RemoveAt([lst EXCEPT ![i + 1] = r.self], i + 2), i |-> i, k |-> r.k]
         ELSE [lst |-> [lst EXCEPT ![i + 1] = r.self, ![i + 2] = r.op], i |-> i + 1, k |-> r.k]
    ELSE [lst |-> [lst EXCEPT ![i + 1] = r.self, ![i + 2] = r.op], i |-> i, k |-> 0])

\* One iteration of the while loop of merge_segments on list lst with index
\* i (0-based); only called while i + 1 < len(lst).  merge works in place,
\* so the list holds both segments as the call left them, whatever it
\* returned.
merge_segments_step(lst, i) ==
  Let1(seg_merge(lst[i + 1], lst[i + 2]), LAMBDA r :
    IF r.ok
    THEN IF segment_empty(r.op)
         THEN [lst |-> RemoveAt([lst EXCEPT ![i + 1] = r.self], i + 2), i |-> i, k |-> r.k]
         ELSE [lst |-> [lst EXCEPT ![i + 1] = r.self, ![i + 2] = r.op], i |-> i + 1, k |-> r.k]
    ELSE [lst |-> [lst EXCEPT ![i + 1] = r.self, ![i + 2] = r.op], i |-> i + 1, k |-> 0])

\* merge_segments run to its return.
RECURSIVE merge_segments(_, _)
merge_segments(lst, i) ==
  IF Len(lst) <= i + 1 THEN lst
  ELSE LET r == merge_segments_step(lst, i) IN merge_segments(r.lst, r.i)

----------------------------------------------------------------------------
(* AssemblerSegment: the dynamic, hash, symtab and strtab builders *)

\* int(PlatformVar("addr")), the size given to address-wide variables.
Addr == PlatformVarGet("addr").n

\* labelify on the names the model offers: "/" and "." become "_".
labelify(op) ==
  CASE op = "libc.so" -> "libc_so"
    [] op = "libm.so" -> "libm_so"
    [] OTHER -> op

\* Library names given verbatim (matching lib.+\.so).
VerbatimLibs == {"libm.so"}

\* Linker.get_library_name with no linker script found in the library
\* directories.
get_library_name(op) == IF op \in VerbatimLibs THEN op ELSE "lib" \o op \o ".so"

\* Mutant: the DT_HASH entry is written with the tag of DT_SYMTAB.
add_dt_hash_as_symtab(sg, op) ==
  LET d_tag == AssemblerVariable(<<"d_tag, DT_SYMTAB = 6">>, Addr, IntV(6), <<>>)
      d_un == AssemblerVariable(<<"d_un">>, Addr, op, <<>>)
  IN refresh_name_label([sg EXCEPT !.data = <<d_tag, d_un>> \o @])

add_dt_hash(sg, op) ==
  LET d_tag == AssemblerVariable(<<"d_tag, DT_HASH = 4">>, Addr, IntV(4), <<>>)
      d_un == AssemblerVariable(<<"d_un">>, Addr, op, <<>>)
  IN refresh_name_label([sg EXCEPT !.data = <<d_tag, d_un>> \o @])

\* Mutant: the DT_NEEDED entry is appended behind the last entry.
add_dt_needed_appended(sg, op) ==
  LET d_tag == AssemblerVariable(<<"d_tag, DT_NEEDED = 1">>, Addr, IntV(1), <<>>)
      d_un == AssemblerVariable(<<"d_un, library name offset in strtab">>, Addr,
                                SymV("strtab_" \o labelify(op) \o " - strtab"), <<>>)
  IN refresh_name_label([sg EXCEPT !.data = @ \o <<d_tag, d_un>>])

add_dt_needed(sg, op) ==
  LET d_tag == AssemblerVariable(<<"d_tag, DT_NEEDED = 1">>, Addr, IntV(1), <<>>)
      d_un == AssemblerVariable(<<"d_un, library name offset in strtab">>, Addr,
                                SymV("strtab_" \o labelify(op) \o " - strtab"), <<>>)
  IN refresh_name_label([sg EXCEPT !.data = <<d_tag, d_un>> \o @])

add_dt_symtab(sg, op) ==
  LET d_tag == AssemblerVariable(<<"d_tag, DT_SYMTAB = 6">>, Addr, IntV(6), <<>>)
      d_un == AssemblerVariable(<<"d_un">>, Addr, op, <<>>)
  IN refresh_name_label([sg EXCEPT !.data = <<d_tag, d_un>> \o @])

\* Mutant: bucket[0] is written as num instead of num - 1.
add_hash_bucket_num(sg, lst) ==
  LET num == Len(lst) + 1
      word(n) == AssemblerVariable(<<>>, 4, IntV(n), <<>>)
  IN add_all([sg EXCEPT !.data = <<>>],
             <<word(1), word(num), word(num), word(0)>>
             \o [j \in 1..(num - 1) |-> word(j - 1)])

\* add_hash: the data is reset, then 1, num, num - 1, 0 and range(num - 1)
\* are added as 4-byte variables.
add_hash(sg, lst) ==
  LET num == Len(lst) + 1
      word(n) == AssemblerVariable(<<>>, 4, IntV(n), <<>>)
  IN add_all([sg EXCEPT !.data = <<>>],
             <<word(1), word(num), word(num - 1), word(0)>>
             \o (IF 1 < num THEN [j \in 1..(num - 1) |-> word(j - 1)] ELSE <<>>))

\* Mutant: the name is appended at the end of the segment.
add_strtab_appended(sg, op) ==
  LET libname == AssemblerVariable(<<"symbol name string">>, 1,
                                   StrV("\"" \o op \o "\""), <<labelify(op)>>)
      terminator == AssemblerVariable(<<"string terminating zero">>, 1, IntV(0), <<>>)
  IN refresh_name_end_label([sg EXCEPT !.data = @ \o <<libname, terminator>>])

\* add_strtab: data[1:1] = [libname, terminator], then the end label.
add_strtab(sg, op) ==
  LET libname == AssemblerVariable(<<"symbol name string">>, 1,
                                   StrV("\"" \o op \o "\""), <<labelify(op)>>)
      terminator == AssemblerVariable(<<"string terminating zero">>, 1, IntV(0), <<>>)
      at == Min(1, Len(sg.data))
  IN refresh_name_end_label(
       [sg EXCEPT !.data = SubSeq(@, 1, at) \o <<libname, terminator>>
                            \o SubSeq(@, at + 1, Len(@))])

\* add_symbol_empty and add_symbol_und; on an address size that is neither
\* 32-bit nor 64-bit the script raises instead.
add_symbol_empty(sg) ==
  IF osarch_is_32_bit
  THEN add_data(sg, AssemblerVariable(<<"empty symbol">>, 4, ListV(<<0, 0, 0, 0>>), <<>>))
  ELSE add_all(sg, <<AssemblerVariable(<<"empty symbol">>, 4, ListV(<<0, 0>>), <<>>),
                     AssemblerVariable(<<"empty symbol">>, Addr, ListV(<<0, 0>>), <<>>)>>)

add_symbol_und(sg, name) ==
  LET st_name == AssemblerVariable(<<"st_name">>, 4,
                                   SymV("strtab_" \o name \o " - strtab"), <<>>)
      st_value == AssemblerVariable(<<"st_value">>, Addr, SymV(name), <<>>)
      st_size == AssemblerVariable(<<"st_size">>, Addr, PV("addr"), <<>>)
      st_info == AssemblerVariable(<<"st_info">>, 1, IntV(17), <<>>)
      st_other == AssemblerVariable(<<"st_other">>, 1, IntV(0), <<>>)
      st_shndx == AssemblerVariable(<<"st_shndx">>, 2, IntV(1), <<>>)
  IN IF osarch_is_32_bit
     THEN add_all(sg, <<st_name, st_value, st_size, st_info, st_other, st_shndx>>)
     ELSE add_all(sg, <<st_name, st_info, st_other, st_shndx, st_value, st_size>>)

----------------------------------------------------------------------------
(* The segment templates *)

V(desc, size, value) == AssemblerVariable(<<desc>>, size, value, <<>>)

\* hex() of the two memory page sizes, for the descriptions built from
\* str(PlatformVar("memory_page")).
hex(n) == CASE n = 4096 -> "0x1000" [] n = 2097152 -> "0x200000"

DescPhnum == "e_phnum, Elf32_Phdr count, PT_LOAD, [PT_LOAD (bss)], PT_INTERP, PT_DYNAMIC"
DescLoad == "p_type, PT_LOAD = 1"
DescAlign == "p_align, usually " \o hex(PlatformVarGet("memory_page").n)

assembler_ehdr ==
  AssemblerSegment("ehdr", "Elf32_Ehdr or Elf64_Ehdr",
    << V("e_ident[EI_MAG0], magic value 0x7F", 1, IntV(127)),
       V("e_ident[EI_MAG1] to e_indent[EI_MAG3], magic value \"ELF\"", 1, StrV("\"ELF\"")),
       V("e_ident[EI_CLASS], ELFCLASS32 = 1, ELFCLASS64 = 2", 1, PV("ei_class")),
       V("e_ident[EI_DATA], ELFDATA2LSB = 1, ELFDATA2MSB = 2", 1, IntV(1)),
       V("e_ident[EI_VERSION], EV_CURRENT = 1", 1, IntV(1)),
       V("e_ident[EI_OSABI], ELFOSABI_LINUX = 3, ELFOSABI_FREEBSD = 9", 1, PV("ei_osabi")),
       V("e_ident[EI_ABIVERSION], always 0", 1, IntV(0)),
       V("e_indent[EI_MAG10 to EI_MAG15], unused", 1, ListV(<<0, 0, 0, 0, 0, 0, 0>>)),
       V("e_type, ET_EXEC = 2", 2, IntV(2)),
       V("e_machine, EM_386 = 3, EM_X86_64 = 62", 2, PV("e_machine")),
       V("e_version, EV_CURRENT = 1", 4, IntV(1)),
       V("e_entry, execution starting point", Addr, SymV("_start")),
       V("e_phoff, offset from start to program headers", Addr, SymV("ehdr_end - ehdr")),
       V("e_shoff, start of section headers", Addr, IntV(0)),
       V("e_flags, unused", 4, IntV(0)),
       V("e_ehsize, Elf32_Ehdr size", 2, SymV("ehdr_end - ehdr")),
       V("e_phentsize, Elf32_Phdr size", 2, SymV("phdr_load_end - phdr_load")),
       V(DescPhnum, 2, PV("phdr_count")),
       V("e_shentsize, Elf32_Shdr size", 2, IntV(0)),
       V("e_shnum, Elf32_Shdr count", 2, IntV(0)),
       V("e_shstrndx, index of section containing string table of section header names",
         2, IntV(0)) >>)

assembler_phdr32_load_single ==
  AssemblerSegment("phdr_load", "Elf32_Phdr, PT_LOAD",
    << V(DescLoad, 4, IntV(1)),
       V("p_offset, offset of program start", Addr, IntV(0)),
       V("p_vaddr, program virtual address", Addr, PV("entry")),
       V("p_paddr, unused", Addr, IntV(0)),
       V("p_filesz, program size on disk", Addr, SymV("end - ehdr")),
       V("p_memsz, program size in memory", Addr, SymV("bss_end - ehdr")),
       V("p_flags, rwx = 7", 4, IntV(7)),
       V("p_align, usually 0x1000", Addr, PV("memory_page")) >>)

assembler_phdr32_load_double ==
  AssemblerSegment("phdr_load", "Elf32_Phdr, PT_LOAD",
    << V(DescLoad, 4, IntV(1)),
       V("p_offset, offset of program start", Addr, IntV(0)),
       V("p_vaddr, program virtual address", Addr, PV("entry")),
       V("p_paddr, unused", Addr, IntV(0)),
       V("p_filesz, program size on disk", Addr, SymV("end - ehdr")),
       V("p_memsz, program headers size in memory", Addr, SymV("end - ehdr")),
       V("p_flags, rwx = 7", 4, IntV(7)),
       V(DescAlign, Addr, PV("memory_page")) >>)

assembler_phdr32_load_bss ==
  AssemblerSegment("phdr_load_bss", "Elf32_Phdr, PT_LOAD (.bss)",
    << V(DescLoad, 4, IntV(1)),
       V("p_offset, offset of fake .bss segment", Addr, SymV("end - ehdr")),
       V("p_vaddr, program virtual address", Addr, SymV("bss_start")),
       V("p_paddr, unused", Addr, IntV(0)),
       V("p_filesz, .bss size on disk", Addr, IntV(0)),
       V("p_memsz, .bss size in memory", Addr, SymV("bss_end - end")),
       V("p_flags, rw = 6", 4, IntV(6)),
       V(DescAlign, Addr, PV("memory_page")) >>)

assembler_phdr32_dynamic ==
  AssemblerSegment("phdr_dynamic", "Elf32_Phdr, PT_DYNAMIC",
    << V("p_type, PT_DYNAMIC = 2", 4, IntV(2)),
       V("p_offset, offset of block", Addr, SymV("dynamic - ehdr")),
       V("p_vaddr, address of block", Addr, SymV("dynamic")),
       V("p_paddr, unused", Addr, IntV(0)),
       V("p_filesz, block size on disk", Addr, SymV("dynamic_end - dynamic")),
       V("p_memsz, block size in memory", Addr, SymV("dynamic_end - dynamic")),
       V("p_flags, ignored", 4, IntV(0)),
       V("p_align", Addr, IntV(1)) >>)

assembler_phdr32_interp ==
  AssemblerSegment("phdr_interp", "Elf32_Phdr, PT_INTERP",
    << V("p_type, PT_INTERP = 3", 4, IntV(3)),
       V("p_offset, offset of block", Addr, SymV("interp - ehdr")),
       V("p_vaddr, address of block", Addr, SymV("interp")),
       V("p_paddr, unused", Addr, IntV(0)),
       V("p_filesz, block size on disk", Addr, SymV("interp_end - interp")),
       V("p_memsz, block size in memory", Addr, SymV("interp_end - interp")),
       V("p_flags, ignored", 4, IntV(0)),
       V("p_align, 1 for strtab", Addr, IntV(1)) >>)

assembler_phdr64_load_single ==
  AssemblerSegment("phdr_load", "Elf64_Phdr, PT_LOAD",
    << V(DescLoad, 4, IntV(1)),
       V("p_flags, rwx = 7", 4, IntV(7)),
       V("p_offset, offset of program start", Addr, IntV(0)),
       V("p_vaddr, program virtual address", Addr, PV("entry")),
       V("p_paddr, unused", Addr, IntV(0)),
       V("p_filesz, program size on disk", Addr, SymV("end - ehdr")),
       V("p_memsz, program size in memory", Addr, SymV("bss_end - ehdr")),
       V(DescAlign, Addr, PV("memory_page")) >>)

assembler_phdr64_dynamic ==
  AssemblerSegment("phdr_dynamic", "Elf64_Phdr, PT_DYNAMIC",
    << V("p_type, PT_DYNAMIC = 2", 4, IntV(2)),
       V("p_flags, ignored", 4, IntV(0)),
       V("p_offset, offset of block", Addr, SymV("dynamic - ehdr")),
       V("p_vaddr, address of block", Addr, SymV("dynamic")),
       V("p_paddr, unused", Addr, IntV(0)),
       V("p_filesz, block size on disk", Addr, SymV("dynamic_end - dynamic")),
       V("p_memsz, block size in memory", Addr, SymV("dynamic_end - dynamic")),
       V("p_align", Addr, IntV(1)) >>)

assembler_phdr64_interp ==
  AssemblerSegment("phdr_interp", "Elf64_Phdr, PT_INTERP",
    << V("p_type, PT_INTERP = 3", 4, IntV(3)),
       V("p_flags, ignored", 4, IntV(0)),
       V("p_offset, offset of block", Addr, SymV("interp - ehdr")),
       V("p_vaddr, address of block", Addr, SymV("interp")),
       V("p_paddr, unused", Addr, IntV(0)),
       V("p_filesz, block size on disk", Addr, SymV("interp_end - interp")),
       V("p_memsz, block size in memory", Addr, SymV("interp_end - interp")),
       V("p_align, 1 for strtab", Addr, IntV(1)) >>)

assembler_hash == AssemblerSegment("hash", "DT_HASH", <<>>)

assembler_dynamic ==
  AssemblerSegment("dynamic", "PT_DYNAMIC",
    << V("d_tag, DT_STRTAB = 5", Addr, IntV(5)),
       V("d_un", Addr, SymV("strtab")),
       V("d_tag, DT_DEBUG = 21", Addr, IntV(21)),
       V("d_un", Addr, IntV(0)),
       V("d_tag, DT_NULL = 0", Addr, IntV(0)),
       V("d_un", Addr, IntV(0)) >>)

assembler_symtab == AssemblerSegment("symtab", "DT_SYMTAB", <<>>)

assembler_interp ==
  AssemblerSegment("interp", "PT_INTERP",
    << V("path to interpreter", 1, PV("interp")),
       V("interpreter terminating zero", 1, IntV(0)) >>)

assembler_strtab ==
  AssemblerSegment("strtab", "DT_STRTAB", << V("initial zero", 1, IntV(0)) >>)

----------------------------------------------------------------------------
(* Generated source *)

OutLabel(s) == [k |-> "label", s |-> s, desc |-> <<>>, size |-> 0, value |-> NoneV]
OutData(desc, size, value) ==
  [k |-> "data", s |-> "", desc |-> desc, size |-> size, value |-> value]

\* format_data turns the value into text when the file is written: a
\* PlatformVar is resolved by str() at that moment.
format_data(size, value) ==
  OutData(<<>>, size, IF value.t = "pv" THEN PlatformVarGet(value.s) ELSE value)

\* AssemblerVariable.generate_source: pre-labels, the <segment>_<name> label
\* of a named string literal, the data with its comment, post-labels.
var_generate_source(v, label) ==
  [j \in 1..Len(v.label_pre) |-> OutLabel(v.label_pre[j])]
  \o (IF v.value.t = "str" /\ label # "" /\ v.name # <<>>
      THEN <<OutLabel(label \o "_" \o v.name[1])>> ELSE <<>>)
  \o <<[format_data(v.size, v.value) EXCEPT !.desc = v.desc]>>
  \o [j \in 1..Len(v.label_post) |-> OutLabel(v.label_post[j])]

RECURSIVE data_generate_source(_, _)
data_generate_source(data, label) ==
  IF data = <<>> THEN <<>>
  ELSE var_generate_source(Head(data), label) \o data_generate_source(Tail(data), label)

\* AssemblerSegment.generate_source
seg_generate_source(sg) == data_generate_source(sg.data, sg.name)

\* The loop of main over segments, each written with AssemblerSegment.write.
RECURSIVE write_segments(_)
write_segments(lst) ==
  IF lst = <<>> THEN <<>>
  ELSE seg_generate_source(Head(lst)) \o write_segments(Tail(lst))

\* AssemblerFile.write to an open file: tag and content of every section.
RECURSIVE write_sections(_)
write_sections(secs) ==
  IF secs = <<>> THEN <<>>
  ELSE Head(secs).tag \o Head(secs).content \o write_sections(Tail(secs))

----------------------------------------------------------------------------
(* AssemblerSection and AssemblerFile *)

\* A source line, by what the regular expressions of the script see in it:
\*   k = "globl" (.globl name), "type_object" (.type name, @object),
\*       "type" (any other .type), "label" (name:), "zero" (.zero n),
\*       "local" (.local name), "comm" (.comm name, n), "align" (.align n),
\*       "balign", "equ" (.equ name, s + n), "file", "ident", "section",
\*       "size", "bss", "data", "text" (the directives crunch drops),
\*       "push" (s the mnemonic), "xor", "sub_sp" (sub $n, %rsp / %esp),
\*       "syscall", "int" (s the operand), "insn" (anything else).
Line(k, name, n, str) == [k |-> k, name |-> name, n |-> n, s |-> str]

AssemblerSection(name, tag) == [name |-> name, tag |-> tag, content |-> <<>>]

add_line(sec, line) == [sec EXCEPT !.content = @ \o <<line>>]

\* want_line: the first index >= first (1-based) whose line matches, 0 for
\* None.
RECURSIVE want_line(_, _, _)
want_line(content, Match(_), first) ==
  IF first > Len(content) THEN 0
  ELSE IF Match(content[first]) THEN first
  ELSE want_line(content, Match, first + 1)

\* erase(first, last) on 1-based inclusive bounds.
erase(content, first, last) ==
  SubSeq(content, 1, first - 1) \o SubSeq(content, last + 1, Len(content))

\* extract_globl_object from index idx on: [found, name, size, content].
RECURSIVE extract_globl_object(_, _)
extract_globl_object(content, idx) ==
  LET attempt == want_line(content, LAMBDA l : l.k = "globl", idx)
  IN IF attempt = 0 THEN [found |-> FALSE, name |-> "", size |-> 0, content |-> content]
     ELSE LET name == content[attempt].name
              t == want_line(content,
                             LAMBDA l : l.k = "type_object" /\ l.name = name, attempt + 1)
              lb == IF t = 0 THEN 0
                    ELSE want_line(content, LAMBDA l : l.k = "label" /\ l.name = name, t + 1)
              z == IF lb = 0 THEN 0
                   ELSE want_line(content, LAMBDA l : l.k = "zero", lb + 1)
          IN IF z = 0 THEN extract_globl_object(content, attempt + 1)
             ELSE [found |-> TRUE, name |-> name, size |-> content[z].n,
                   content |-> erase(content, attempt, z)]

\* extract_comm_object from index idx on.
RECURSIVE extract_comm_object(_, _)
extract_comm_object(content, idx) ==
  LET attempt == want_line(content, LAMBDA l : l.k = "local", idx)
  IN IF attempt = 0 THEN [found |-> FALSE, name |-> "", size |-> 0, content |-> content]
     ELSE LET name == content[attempt].name
              c == want_line(content, LAMBDA l : l.k = "comm" /\ l.name = name, attempt + 1)
          IN IF c = 0 THEN extract_comm_object(content, attempt + 1)
             ELSE [found |-> TRUE, name |-> name, size |-> content[c].n,
                   content |-> erase(content, attempt, c)]

\* minimal_align: every .align whose operand differs from the desired
\* alignment becomes .balign <desired>.
minimal_align(content) ==
  LET desired == PlatformVarGet("align").n
  IN [j \in 1..Len(content) |->
        IF content[j].k = "align" /\ desired # content[j].n
        THEN Line("balign", "", desired, "")
        ELSE content[j]]

CrunchedKinds ==
  {"file", "globl", "ident", "section", "type", "type_object", "size", "bss", "data", "text"}

\* The while loop of crunch: one matching line is erased per round until
\* none is left.
RECURSIVE crunch_directives(_)
crunch_directives(content) ==
  LET j == want_line(content, LAMBDA l : l.k \in CrunchedKinds, 1)
  IN IF j = 0 THEN content ELSE crunch_directives(erase(content, j, j))

\* Mutant: every push is taken to be four bytes wide.
asm_get_push_width_four(op) ==
  CASE op = "pushq" -> 4
    [] op = "pushl" -> 4
    [] OTHER -> 0

\* asm_get_push_width; 0 stands for the RuntimeError of an unknown width.
asm_get_push_width(op) ==
  CASE op = "pushq" -> 8
    [] op = "pushl" -> 4
    [] OTHER -> 0

\* The while True loop of crunch_entry_push from line jj (1-based) on; first
\* is the line after _start:. err names the exception that ends the script.
RECURSIVE entry_push_loop(_, _, _, _, _)
entry_push_loop(content, first, jj, reinstated_lines, stack_offset) ==
  IF jj > Len(content) THEN [content |-> content, err |-> "IndexError"]
  ELSE IF content[jj].k = "push"
  THEN IF asm_get_push_width(content[jj].s) = 0
       THEN [content |-> content, err |-> "RuntimeError"]
       ELSE entry_push_loop(content, first, jj + 1, reinstated_lines,
                            stack_offset + asm_get_push_width(content[jj].s))
  ELSE IF content[jj].k = "xor"
  THEN entry_push_loop(content, first, jj + 1, reinstated_lines \o <<content[jj]>>,
                       stack_offset)
  ELSE LET rewritten == IF content[jj].k = "sub_sp"
                        THEN [content EXCEPT ![jj].n = @ + stack_offset]
                        ELSE content
           erased == erase(rewritten, first, jj - 1)
       IN [content |-> SubSeq(erased, 1, first - 1) \o reinstated_lines
                       \o SubSeq(erased, first, Len(erased)),
           err |-> ""]

crunch_entry_push(content) ==
  Let1(want_line(content, LAMBDA l : l.k = "label" /\ l.name = "_start", 1), LAMBDA e :
    IF e = 0 THEN [content |-> content, err |-> ""]
    ELSE entry_push_loop(content, e + 1, e + 1, <<>>, 0))

\* The footer loop of crunch_amd64 / crunch_ia32: erase from the line after
\* the system call up to the next label line or the end.
erase_footer(content, call) ==
  LET nxt == want_line(content, LAMBDA l : l.k = "label", call + 1)
  IN erase(content, call + 1, IF nxt = 0 THEN Len(content) ELSE nxt - 1)

crunch_amd64(content) ==
  Let1(crunch_entry_push(content), LAMBDA r :
    Let1(want_line(r.content, LAMBDA l : l.k = "syscall", 1), LAMBDA c :
      IF r.err # "" \/ c = 0 THEN r
      ELSE [content |-> erase_footer(r.content, c), err |-> ""]))

crunch_ia32(content) ==
  Let1(crunch_entry_push(content), LAMBDA r :
    Let1(want_line(r.content, LAMBDA l : l.k = "int", 1), LAMBDA c :
      IF r.err # "" \/ c = 0 THEN r
      ELSE IF r.content[c].s = "0x80" \/ r.content[c].s = "128"
      THEN [content |-> erase_footer(r.content, c), err |-> ""]
      ELSE r))

\* AssemblerSection.crunch on the content of a section.
crunch(content) ==
  Let1(crunch_directives(content), LAMBDA d :
    IF osarch_match("amd64") THEN crunch_amd64(d)
    ELSE IF osarch_match("ia32") THEN crunch_ia32(d)
    ELSE [content |-> d, err |-> ""])

\* extract_bss: an extracted entry, or None after minimal_align and crunch.
extract_bss(sec) ==
  Let1(extract_globl_object(sec.content, 1), LAMBDA g :
    IF g.found THEN [found |-> TRUE, name |-> g.name, size |-> g.size, err |-> "",
                     sec |-> [sec EXCEPT !.content = g.content]]
    ELSE Let1(extract_comm_object(sec.content, 1), LAMBDA c :
      IF c.found THEN [found |-> TRUE, name |-> c.name, size |-> c.size, err |-> "",
                       sec |-> [sec EXCEPT !.content = c.content]]
      ELSE Let1(crunch(minimal_align(sec.content)), LAMBDA cr :
        [found |-> FALSE, name |-> "", size |-> 0, err |-> cr.err,
         sec |-> [sec EXCEPT !.content = cr.content, !.tag = <<>>]])))

\* Mutant: the offset is not rounded.
bss_round_none(offset) == offset

\* Mutant: the offset is rounded down to a multiple of four.
bss_round_down(offset) == offset - (offset % 4)

\* Round offset up to the next multiple of four, as generate_fake_bss does.
bss_round(offset) == IF 0 < offset % 4 THEN offset + (4 - (offset % 4)) ELSE offset

\* Mutant: size keeps the rounded offset.
bss_entry_size_rounded(st, entry) ==
  LET offset == st.offset + entry.size
  IN [st EXCEPT !.bss_elements = @ \o <<<<entry.name, st.offset>>>>,
                !.size = bss_round(offset),
                !.offset = bss_round(offset)]

\* The statements of generate_fake_bss after one entry is extracted: the name
\* is recorded at the current offset, size becomes the unrounded end of the
\* entry and offset that end rounded up.
bss_entry(st, entry) ==
  LET offset == st.offset + entry.size
  IN [st EXCEPT !.bss_elements = @ \o <<<<entry.name, st.offset>>>>,
                !.size = offset,
                !.offset = bss_round(offset)]

\* The while True loop of generate_fake_bss for one section; st holds the
\* locals offset, size and bss_elements and the sections done.
RECURSIVE bss_extract_all(_, _)
bss_extract_all(sec, st) ==
  Let1(extract_bss(sec), LAMBDA entry :
    IF ~entry.found
    THEN [st EXCEPT !.sections = @ \o <<entry.sec>>, !.err = entry.err]
    ELSE bss_extract_all(entry.sec, bss_entry(st, entry)))

RECURSIVE bss_sections_loop(_, _)
bss_sections_loop(secs, st) ==
  IF secs = <<>> \/ st.err # "" THEN st
  ELSE bss_sections_loop(Tail(secs), bss_extract_all(Head(secs), st))

BssLimit == 134217728

\* Mutant: the limit itself already asks for the second PT_LOAD.
bss_offset_at_limit(size) == IF BssLimit <= size THEN PV("memory_page") ELSE IntV(0)

\* bss_offset as generate_fake_bss chooses it from size.
bss_offset_for(size) == IF BssLimit < size THEN PV("memory_page") ELSE IntV(0)

RECURSIVE bss_equ_lines(_)
bss_equ_lines(elements) ==
  IF elements = <<>> THEN <<>>
  ELSE <<Line("equ", Head(elements)[1], Head(elements)[2], "bss_start")>>
       \o bss_equ_lines(Tail(elements))

\* AssemblerSection.empty as written: False for a section without content,
\* True for one with content.
section_empty(sec) == sec.content # <<>>

\* Mutant: rodata is appended to the first text section of the file.
RECURSIVE remove_rodata_first_loop(_, _, _, _)
remove_rodata_first_loop(secs, i, text_section, rodata_sections) ==
  IF Len(secs) <= i
  THEN [sections |-> secs, err |-> ""]
  ELSE IF secs[i + 1].name = "text"
  THEN remove_rodata_first_loop(secs, i + 1, IF text_section = 0 THEN i + 1 ELSE text_section,
                                rodata_sections)
  ELSE IF secs[i + 1].name = "rodata"
  THEN remove_rodata_first_loop(
         RemoveAt([secs EXCEPT ![text_section].content = @ \o secs[i + 1].content], i + 1),
         i, text_section, rodata_sections)
  ELSE remove_rodata_first_loop(secs, i + 1, text_section, rodata_sections)

remove_rodata_first_text(secs) == remove_rodata_first_loop(secs, 0, 0, <<>>)

\* text_section.content += ii.content for ii in rodata_sections; text_section
\* is an index into secs, 0 for None.
RECURSIVE append_rodata(_, _, _)
append_rodata(secs, text_section, rodata_sections) ==
  IF rodata_sections = <<>> THEN [sections |-> secs, err |-> ""]
  ELSE IF text_section = 0 THEN [sections |-> secs, err |-> "AttributeError"]
  ELSE append_rodata([secs EXCEPT ![text_section].content = @ \o Head(rodata_sections).content],
                     text_section, Tail(rodata_sections))

\* The while loop of AssemblerFile.remove_rodata at index i (0-based).
RECURSIVE remove_rodata_loop(_, _, _, _)
remove_rodata_loop(secs, i, text_section, rodata_sections) ==
  IF Len(secs) <= i
  THEN append_rodata(secs, text_section, rodata_sections)
  ELSE IF secs[i + 1].name = "text"
  THEN remove_rodata_loop(secs, i + 1, i + 1, rodata_sections)
  ELSE IF secs[i + 1].name = "rodata"
  THEN IF text_section # 0
       THEN remove_rodata_loop(
              RemoveAt([secs EXCEPT ![text_section].content = @ \o secs[i + 1].content],
                       i + 1),
              i, text_section, rodata_sections)
       ELSE remove_rodata_loop(RemoveAt(secs, i + 1), i, text_section,
                               rodata_sections \o <<secs[i + 1]>>)
  ELSE remove_rodata_loop(secs, i + 1, text_section, rodata_sections)

\* AssemblerFile.remove_rodata: the sections afterwards; err names the
\* exception raised when rodata is left over and no text section exists.
remove_rodata(secs) == remove_rodata_loop(secs, 0, 0, <<>>)

\* The for loop of AssemblerFile.__init__ over the lines of the file.
RECURSIVE read_lines(_, _, _)
read_lines(lines, secs, current_section) ==
  IF lines = <<>> THEN <<secs, current_section>>
  ELSE IF Head(lines).k = "section"
  THEN read_lines(Tail(lines), secs \o <<current_section>>,
                  AssemblerSection(Head(lines).name, <<Head(lines)>>))
  ELSE read_lines(Tail(lines), secs, add_line(current_section, Head(lines)))

\* AssemblerFile.__init__: the sections read from the lines of a file.
AssemblerFile(lines) ==
  LET r == read_lines(lines, <<>>, AssemblerSection("text", <<>>))
  IN IF ~section_empty(r[2]) THEN r[1] \o <<r[2]>> ELSE r[1]

\* AssemblerFile.generate_fake_bss: the sections afterwards, the return
\* value ret and the locals the .bss section is written from.
generate_fake_bss(secs) ==
  Let1(bss_sections_loop(secs, [offset |-> 0, size |-> 0, bss_elements |-> <<>>,
                                sections |-> <<>>, err |-> ""]), LAMBDA st :
    Let1(bss_offset_for(st.size), LAMBDA bss_offset :
      LET offset_text == IF bss_offset.t = "pv" THEN PlatformVarGet(bss_offset.s).n
                         ELSE bss_offset.n
          lines == <<Line("label", "end", 0, ""),
                     Line("balign", "", PlatformVarGet("addr").n, ""),
                     Line("label", "aligned_end", 0, ""),
                     Line("equ", "bss_start", offset_text, "aligned_end")>>
                   \o bss_equ_lines(st.bss_elements)
                   \o <<Line("equ", "bss_end", st.size, "bss_start")>>
      IN [sections |-> st.sections
                       \o <<[AssemblerSection(".bss", <<>>) EXCEPT !.content = lines]>>,
          ret |-> bss_offset # IntV(0),
          err |-> st.err,
          size |-> st.size,
          bss_elements |-> st.bss_elements,
          bss_offset |-> bss_offset]))

----------------------------------------------------------------------------
(* Emitted image of a segment, as the assembler lays it out *)

ByteCell(n) == [k |-> "b", n |-> n, s |-> "", i |-> 0]
SymCell(s, i) == [k |-> "s", n |-> 0, s |-> s, i |-> i]

\* format_data of one variable, expanded to the cells the assembler emits:
\* one cell per byte of a number, size cells for a symbolic expression (one
\* for a string literal, which is opaque here).
VarCells(v) ==
  IF v.value.t = "sym" THEN [i \in 1..v.size |-> SymCell(v.value.s, i)]
  ELSE IF v.value.t = "str" THEN <<SymCell(v.value.s, 1)>>
  ELSE IF v.value.t = "pv" /\ ~PlatformVarIsInt(v.value.s)
  THEN <<SymCell(PlatformVarGet(v.value.s).s, 1)>>
  ELSE LET lst == PackValue(v) IN [i \in 1..Len(lst) |-> ByteCell(lst[i])]

RECURSIVE DataCells(_)
DataCells(data) ==
  IF data = <<>> THEN <<>> ELSE VarCells(Head(data)) \o DataCells(Tail(data))

SegCells(sg) == DataCells(sg.data)

Range(f) == {f[x] : x \in DOMAIN f}

\* Where the labels of a segment land: <<label, address>> with the address
\* counted in cells from the segment start; a pre-label sits at the start of
\* its variable, a post-label at its end.
RECURSIVE LabelAddrs(_, _)
LabelAddrs(data, at) ==
  IF data = <<>> THEN {}
  ELSE LET v == Head(data)
           n == Len(VarCells(v))
       IN {<<"pre", l, at>> : l \in Range(v.label_pre)}
          \cup {<<"post", l, at + n>> : l \in Range(v.label_post)}
          \cup {<<"name", l, at>> : l \in Range(v.name)}
          \cup LabelAddrs(Tail(data), at + n)

----------------------------------------------------------------------------
(* Bounds and input pools *)

MaxSegs == 3
MaxVars == 3
MaxLabels == 2

SegNames == <<"a", "b", "c", "d", "e">>

\* Variables offered to add_data.
VarPool ==
  { AssemblerVariable(<<"d">>, 4, IntV(0), <<>>),
    AssemblerVariable(<<>>, 4, IntV(0), <<>>),
    AssemblerVariable(<<"z">>, 1, IntV(0), <<>>),
    AssemblerVariable(<<"c">>, 1, PV("ei_class"), <<>>),
    AssemblerVariable(<<"o">>, 2, IntV(1), <<>>),
    AssemblerVariable(<<"w">>, 2, IntV(0), <<>>),
    AssemblerVariable(<<"q">>, 8, IntV(0), <<>>),
    AssemblerVariable(<<"m">>, 2, IntV(-1), <<>>),
    AssemblerVariable(<<"x">>, 4, SymV("x - y"), <<>>),
    AssemblerVariable(<<"s">>, 1, StrV("\"str\""), <<"n">>) }

\* Integer variables offered to deconstruct/reconstruct: each value is one
\* struct.pack accepts for the size.
IntVarPool ==
  { AssemblerVariable(d, sz, IntV(n), nm) :
      d \in {<<>>, <<"d">>}, nm \in {<<>>, <<"n">>},
      sz \in {1, 2, 4, 8}, n \in {0, 1, 255, 256, 65535, -1, -256, -32768} }

PackAccepts(v) ==
  CASE v.size = 1 -> v.value.n \in 0..255
    [] v.size = 2 -> v.value.n \in -32768..65535
    [] OTHER -> TRUE

LabelPool == {"l1", "l2"}

Idle == <<>>

Call(op, n) == [op |-> op, n |-> n]

----------------------------------------------------------------------------
(* Specification of one AssemblerVariable: labels, deconstruct, reconstruct *)

InitVar ==
  /\ osname = "Linux" /\ osarch \in {"i686", "x86_64"}
  /\ platform_variables = initial_platform_variables
  /\ pc = "var"
  /\ avar \in {v \in IntVarPool : PackAccepts(v)}
  /\ bytestream = <<>> /\ rvar = Idle
  /\ segments = <<>> /\ ii = 0 /\ prev = <<>> /\ merged = [i |-> -1, k |-> 0]
  /\ libraries = <<>> /\ sections = <<>> /\ seg = Idle /\ bss = Idle /\ output = Idle
  /\ objects = <<>>
  /\ called = Call("init", "")

VarAddLabelPre ==
  /\ pc = "var" /\ Len(avar.label_pre) + Len(avar.label_post) < MaxLabels
  /\ \E l \in LabelPool :
       /\ avar' = add_label_pre(avar, l)
       /\ called' = Call("add_label_pre", l)
  /\ UNCHANGED <<platVars, pc, bytestream, rvar, mergeVars, mainVars>>

VarAddLabelPost ==
  /\ pc = "var" /\ Len(avar.label_pre) + Len(avar.label_post) < MaxLabels
  /\ \E l \in LabelPool :
       /\ avar' = add_label_post(avar, l)
       /\ called' = Call("add_label_post", l)
  /\ UNCHANGED <<platVars, pc, bytestream, rvar, mergeVars, mainVars>>

VarRemoveLabelPre ==
  /\ pc = "var"
  /\ \E l \in LabelPool :
       /\ avar' = remove_label_pre(avar, l)
       /\ called' = Call("remove_label_pre", l)
  /\ UNCHANGED <<platVars, pc, bytestream, rvar, mergeVars, mainVars>>

VarRemoveLabelPost ==
  /\ pc = "var"
  /\ \E l \in LabelPool :
       /\ avar' = remove_label_post(avar, l)
       /\ called' = Call("remove_label_post", l)
  /\ UNCHANGED <<platVars, pc, bytestream, rvar, mergeVars, mainVars>>

VarDeconstruct ==
  /\ pc = "var"
  /\ bytestream' = deconstruct(avar)
  /\ pc' = "bytes"
  /\ UNCHANGED <<platVars, avar, rvar, mergeVars, mainVars, called>>

\* front.reconstruct(bytestream[1:]) as AssemblerSegment.reconstruct calls it.
VarReconstruct ==
  /\ pc = "bytes"
  /\ LET r == var_reconstruct(Head(bytestream), Tail(bytestream))
     IN /\ rvar' = r.self
        /\ bytestream' = SubSeq(Tail(bytestream), r.n + 1, Len(bytestream) - 1)
  /\ pc' = "rebuilt"
  /\ UNCHANGED <<platVars, avar, mergeVars, mainVars, called>>

NextVar ==
  \/ VarAddLabelPre \/ VarAddLabelPost \/ VarRemoveLabelPre \/ VarRemoveLabelPost
  \/ VarDeconstruct \/ VarReconstruct

SpecVar == InitVar /\ [][NextVar]_vars

----------------------------------------------------------------------------
(* Specification of merge_segments over segments built with add_data *)

TotalVars == LET RECURSIVE cnt(_)
                 cnt(l) == IF l = <<>> THEN 0 ELSE Len(Head(l).data) + cnt(Tail(l))
             IN cnt(segments)

InitMerge ==
  /\ osname = "Linux" /\ osarch = "i686"
  /\ platform_variables = initial_platform_variables
  /\ pc = "build"
  /\ avar = Idle /\ bytestream = <<>> /\ rvar = Idle
  /\ segments = <<>> /\ ii = 0 /\ prev = <<>> /\ merged = [i |-> -1, k |-> 0]
  /\ libraries = <<>> /\ sections = <<>> /\ seg = Idle /\ bss = Idle /\ output = Idle
  /\ objects = <<>>
  /\ called = Idle

NewSegment ==
  /\ pc = "build" /\ Len(segments) < MaxSegs
  /\ IF segments = <<>> THEN TRUE ELSE ~segment_empty(segments[Len(segments)])
  /\ segments' = Append(segments, AssemblerSegment(SegNames[Len(segments) + 1], <<>>, <<>>))
  /\ UNCHANGED <<platVars, pc, varVars, ii, prev, merged, mainVars, called>>

AddData ==
  /\ pc = "build" /\ segments # <<>> /\ TotalVars < MaxVars
  /\ \E v \in VarPool :
       segments' = [segments EXCEPT ![Len(segments)] = add_data(@, v)]
  /\ UNCHANGED <<platVars, pc, varVars, ii, prev, merged, mainVars, called>>

StartMerge ==
  /\ pc = "build" /\ segments # <<>> /\ ~segment_empty(segments[Len(segments)])
  /\ pc' = "merge" /\ ii' = 0
  /\ UNCHANGED <<platVars, varVars, segments, prev, merged, mainVars, called>>

MergeStep ==
  /\ pc = "merge" /\ ii + 1 < Len(segments)
  /\ \E r \in {merge_segments_step(segments, ii)} :
        /\ segments' = r.lst
        /\ ii' = r.i
        /\ merged' = [i |-> ii, k |-> r.k]
  /\ prev' = segments
  /\ UNCHANGED <<platVars, pc, varVars, mainVars, called>>

MergeReturn ==
  /\ pc = "merge" /\ Len(segments) <= ii + 1
  /\ pc' = "done"
  /\ UNCHANGED <<platVars, varVars, mergeVars, mainVars, called>>

NextMerge == NewSegment \/ AddData \/ StartMerge \/ MergeStep \/ MergeReturn

SpecMerge == InitMerge /\ [][NextMerge]_vars

----------------------------------------------------------------------------
(* Specification of main() in "maximum" mode: composition, fake .bss,      *)
(* merge_segments and the final source                                      *)

MaxObjs == 2

ObjNames == <<"foo", "bar", "baz", "qux">>
ObjForms == {"globl", "comm"}
ObjSizes == {0, 17, 134217711, 134217728}
LibPool == <<"c", "libm.so">>

\* sorted(libraries): the sorted lists over LibPool.
LibChoices ==
  { <<>>, <<LibPool[1]>>, <<LibPool[2]>>, <<LibPool[1], LibPool[2]>> }

ObjChoices ==
  UNION { [1..n -> [form : ObjForms, size : ObjSizes]] : n \in 0..MaxObjs }

\* What the compiler writes for one zero-initialised object.
ObjectLines(name, o) ==
  IF o.form = "globl"
  THEN << Line("globl", name, 0, ""), Line("align", "", 4, ""),
          Line("type_object", name, 0, ""), Line("size", name, o.size, ""),
          Line("label", name, 0, ""), Line("zero", "", o.size, "") >>
  ELSE << Line("local", name, 0, ""), Line("comm", name, o.size, "") >>

RECURSIVE AllObjectLines(_, _)
AllObjectLines(objs, j) ==
  IF j > Len(objs) THEN <<>>
  ELSE ObjectLines(ObjNames[j], objs[j]) \o AllObjectLines(objs, j + 1)

\* The assembler source compile_asm leaves in <output>.S: the objects, a
\* string in .rodata, the entry point ending in the exit system call and
\* the closing note section.
SourceLines(objs) ==
  << Line("file", "", 0, ""), Line("text", "", 0, "") >>
  \o AllObjectLines(objs, 1)
  \o << Line("section", "rodata", 0, ""),
        Line("label", ".LC0", 0, ""), Line("insn", "", 0, ".string"),
        Line("text", "", 0, ""),
        Line("globl", "_start", 0, ""), Line("type", "_start", 0, ""),
        Line("label", "_start", 0, ""),
        Line("push", "", 0, IF osarch_match("amd64") THEN "pushq" ELSE "pushl"),
        Line("sub_sp", "", 8, ""),
        Line("insn", "", 0, "call"),
        IF osarch_match("amd64") THEN Line("syscall", "", 0, "")
                                 ELSE Line("int", "", 0, "0x80"),
        Line("insn", "", 0, "ret"),
        Line("size", "_start", 0, ""),
        Line("ident", "", 0, ""),
        Line("section", "note", 0, "") >>

\* und_symbols of main: sorted(["environ", "__progname"]) on FreeBSD, None
\* (no listing) elsewhere.
und_symbols == IF osname_is_freebsd THEN <<"__progname", "environ">> ELSE <<>>

RECURSIVE add_symbols_und(_, _)
add_symbols_und(sg, lst) ==
  IF lst = <<>> THEN sg ELSE add_symbols_und(add_symbol_und(sg, Head(lst)), Tail(lst))

\* for ii in reversed(lst): add_strtab(ii)
RECURSIVE add_strtab_reversed(_, _)
add_strtab_reversed(sg, lst) ==
  IF lst = <<>> THEN sg
  ELSE add_strtab_reversed(add_strtab(sg, lst[Len(lst)]), SubSeq(lst, 1, Len(lst) - 1))

\* for ii in reversed(libraries): add_dt_needed and add_strtab of its
\* library name; r holds the dynamic and strtab segments.
RECURSIVE add_libraries_reversed(_, _)
add_libraries_reversed(r, lst) ==
  IF lst = <<>> THEN r
  ELSE LET library_name == get_library_name(lst[Len(lst)])
       IN add_libraries_reversed(
            [dynamic |-> add_dt_needed(r.dynamic, library_name),
             strtab |-> add_strtab(r.strtab, library_name)],
            SubSeq(lst, 1, Len(lst) - 1))

ErrorStates == {"NameError", "RuntimeError", "IndexError"}

InitMain ==
  /\ osname \in {"Linux", "FreeBSD"} /\ osarch \in {"i686", "x86_64"}
  /\ platform_variables = initial_platform_variables
  /\ pc = "start"
  /\ avar = Idle /\ bytestream = <<>> /\ rvar = Idle
  /\ segments = <<>> /\ ii = 0 /\ prev = <<>> /\ merged = [i |-> -1, k |-> 0]
  /\ libraries \in LibChoices /\ objects \in ObjChoices
  /\ sections = <<>> /\ seg = Idle /\ bss = Idle /\ output = Idle
  /\ called = Idle

\* The segments main constructs before the assembler file is read, by the
\* names main gives them.
compose_segments(libs) ==
  LET is32 == osarch_is_32_bit
      symtab == IF osname_is_freebsd
                THEN add_symbols_und(add_symbol_empty(assembler_symtab), und_symbols)
                ELSE assembler_symtab
      strtab0 == IF osname_is_freebsd
                 THEN add_strtab_reversed(assembler_strtab, und_symbols)
                 ELSE assembler_strtab
      dynamic0 == IF osname_is_freebsd
                  THEN add_dt_hash(add_dt_symtab(assembler_dynamic, SymV("symtab")),
                                   SymV("hash"))
                  ELSE add_dt_symtab(assembler_dynamic, IntV(0))
      hash == IF osname_is_freebsd THEN add_hash(assembler_hash, und_symbols)
              ELSE assembler_hash
  IN Let1(add_libraries_reversed([dynamic |-> dynamic0, strtab |-> strtab0], libs),
          LAMBDA r :
       [ehdr |-> assembler_ehdr,
        phdr_dynamic |-> IF is32 THEN assembler_phdr32_dynamic
                         ELSE assembler_phdr64_dynamic,
        phdr_interp |-> IF is32 THEN assembler_phdr32_interp
                        ELSE assembler_phdr64_interp,
        dynamic |-> r.dynamic, hash |-> hash, interp |-> assembler_interp,
        strtab |-> r.strtab, symtab |-> symtab])

\* The list main hands to merge_segments; double tells whether the second
\* PT_LOAD is needed (only composed on 32-bit).
segment_list(sg, double) ==
  LET load_segments ==
        IF double
        THEN <<assembler_phdr32_load_double, assembler_phdr32_load_bss>>
        ELSE IF osarch_is_32_bit THEN <<assembler_phdr32_load_single>>
        ELSE <<assembler_phdr64_load_single>>
  IN <<sg.ehdr>> \o load_segments
     \o <<sg.phdr_dynamic, sg.phdr_interp>>
     \o (IF osname_is_freebsd THEN <<sg.hash>> ELSE <<>>)
     \o <<sg.dynamic>>
     \o (IF osname_is_freebsd THEN <<sg.symtab>> ELSE <<>>)
     \o <<sg.interp, sg.strtab>>

ComposeSegments ==
  /\ pc = "start"
  /\ seg' = compose_segments(libraries)
  /\ pc' = "composed"
  /\ UNCHANGED <<platVars, varVars, mergeVars, libraries, sections, bss, output, objects,
                 called>>

\* asm = AssemblerFile(output_file + ".S")
ReadAssemblerFile ==
  /\ pc = "composed"
  /\ sections' = AssemblerFile(SourceLines(objects))
  /\ pc' = "read"
  /\ UNCHANGED <<platVars, varVars, mergeVars, libraries, seg, bss, output, objects, called>>

\* asm.generate_fake_bss(assembler)
GenerateFakeBss ==
  /\ pc = "read"
  /\ \E r \in {generate_fake_bss(sections)} :
        /\ bss' = r
        /\ sections' = r.sections
        /\ pc' = IF r.err # "" THEN r.err ELSE "bss_done"
  /\ UNCHANGED <<platVars, varVars, mergeVars, libraries, seg, output, objects, called>>

\* The branch on the result of generate_fake_bss and the segment list. The
\* names assembler_phdr64_load_double and assembler_phdr64_load_bss are
\* defined nowhere in the script: reading them raises NameError.
BuildSegmentList ==
  /\ pc = "bss_done"
  /\ platform_variables' = IF bss.ret
                           THEN replace_platform_variable(platform_variables,
                                                          "phdr_count", 4)
                           ELSE platform_variables
  /\ IF bss.ret /\ ~osarch_is_32_bit
     THEN /\ pc' = "NameError"
          /\ UNCHANGED <<segments, ii>>
     ELSE /\ segments' = segment_list(seg, bss.ret)
          /\ ii' = 0
          /\ pc' = "merge"
  /\ UNCHANGED <<osname, osarch, varVars, prev, merged, mainVars, called>>

\* The final source: every segment written, then the sections of the file.
WriteFinal ==
  /\ pc = "done" /\ sections # <<>>
  /\ IF \E j \in 1..Len(segments) : segment_empty(segments[j])
     THEN /\ pc' = "RuntimeError"
          /\ UNCHANGED output
     ELSE /\ output' = [segments |-> write_segments(segments),
                        sections |-> write_sections(sections)]
          /\ pc' = "written"
  /\ UNCHANGED <<platVars, varVars, mergeVars, libraries, sections, seg, bss, objects,
                 called>>

NextMain ==
  \/ ComposeSegments \/ ReadAssemblerFile \/ GenerateFakeBss \/ BuildSegmentList
  \/ MergeStep \/ MergeReturn \/ WriteFinal

SpecMain == InitMain /\ [][NextMain]_vars

----------------------------------------------------------------------------
(* Specification of one AssemblerSegment under its builders *)

MaxData == 4
MaxUnd == 3

UndPool == <<"__progname", "environ", "stdin", "stdout", "stderr">>

SegVarPool ==
  { AssemblerVariable(<<"d">>, 4, IntV(0), <<>>),
    AssemblerVariable(<<"x">>, 4, SymV("x - y"), <<>>),
    AssemblerVariable(<<"s">>, 1, StrV("\"str\""), <<"n">>) }

InitSegment ==
  /\ osname = "Linux" /\ osarch \in {"i686", "x86_64"}
  /\ platform_variables = initial_platform_variables
  /\ pc = "segment"
  /\ avar = Idle /\ bytestream = <<>> /\ rvar = Idle
  /\ segments = <<AssemblerSegment("seg", "", <<>>)>>
  /\ ii = 0 /\ prev = <<>> /\ merged = [i |-> -1, k |-> 0]
  /\ libraries = <<>> /\ objects = <<>>
  /\ sections = <<>> /\ seg = Idle /\ bss = Idle /\ output = Idle
  /\ called = Call("init", 0)

SegUnchanged == UNCHANGED <<platVars, pc, varVars, ii, prev, merged, mainVars>>

SegAddData ==
  /\ pc = "segment" /\ Len(segments[1].data) < MaxData
  /\ \E v \in SegVarPool : segments' = <<add_data(segments[1], v)>>
  /\ called' = Call("add_data", 0)
  /\ SegUnchanged

SegAddDtHash ==
  /\ pc = "segment" /\ Len(segments[1].data) + 2 <= MaxData
  /\ segments' = <<add_dt_hash(segments[1], SymV("hash"))>>
  /\ called' = Call("add_dt_hash", 0)
  /\ SegUnchanged

SegAddDtNeeded ==
  /\ pc = "segment" /\ Len(segments[1].data) + 2 <= MaxData
  /\ segments' = <<add_dt_needed(segments[1], "libc.so")>>
  /\ called' = Call("add_dt_needed", 0)
  /\ SegUnchanged

SegAddDtSymtab ==
  /\ pc = "segment" /\ Len(segments[1].data) + 2 <= MaxData
  /\ \E op \in {IntV(0), SymV("symtab")} :
       segments' = <<add_dt_symtab(segments[1], op)>>
  /\ called' = Call("add_dt_symtab", 0)
  /\ SegUnchanged

SegAddStrtab ==
  /\ pc = "segment" /\ Len(segments[1].data) + 2 <= MaxData
  /\ \E op \in {"libc.so", "environ"} : segments' = <<add_strtab(segments[1], op)>>
  /\ called' = Call("add_strtab", 0)
  /\ SegUnchanged

SegAddHash ==
  /\ pc = "segment"
  /\ \E n \in 0..MaxUnd :
       /\ segments' = <<add_hash(segments[1], SubSeq(UndPool, 1, n))>>
       /\ called' = Call("add_hash", n)
  /\ SegUnchanged

NextSegment ==
  \/ SegAddData \/ SegAddDtHash \/ SegAddDtNeeded \/ SegAddDtSymtab \/ SegAddStrtab
  \/ SegAddHash

SpecSegment == InitSegment /\ [][NextSegment]_vars

----------------------------------------------------------------------------
(* Claims about AssemblerVariable and AssemblerSegment.merge *)

\* C1: for every AssemblerVariable of size 2, 4 or 8 holding one integer the
\* size can represent (positive, zero or negative), deconstruct() followed by
\* reconstruct() gives a variable with the same value, size, name,
\* description, pre-labels and post-labels.
C1_RoundTrip ==
  (pc = "rebuilt" /\ avar.size \in {2, 4, 8}) =>
    /\ rvar.value = avar.value
    /\ rvar.size = avar.size
    /\ rvar.name = avar.name
    /\ rvar.desc = avar.desc
    /\ rvar.label_pre = avar.label_pre
    /\ rvar.label_post = avar.label_post

\* The pair A, B the last merge_segments iteration worked on, before and
\* after AssemblerSegment.merge.
MergeA == prev[merged.i + 1]
MergeB == prev[merged.i + 2]
MergeA2 == segments[merged.i + 1]
MergeBDeleted == Len(segments) < Len(prev)
MergeB2Cells == IF MergeBDeleted THEN <<>> ELSE SegCells(segments[merged.i + 2])
MergeB2Data == IF MergeBDeleted THEN <<>> ELSE segments[merged.i + 2].data

\* C2: after A.merge(B) chose overlap k, the cells emitted for A followed by
\* B are the cells of A before the merge followed by those of B without its
\* first k; no cell of A changes.
C2_MergePreservesBytes ==
  merged.i >= 0 =>
    LET b == SegCells(MergeB)
    IN /\ SegCells(MergeA2) = SegCells(MergeA)
       /\ SegCells(MergeA2) \o MergeB2Cells
            = SegCells(MergeA) \o SubSeq(b, merged.k + 1, Len(b))

C2_Witness ==
  /\ merged.i >= 0 /\ merged.k >= 2 /\ ~MergeBDeleted
  /\ \E j \in 1..Len(MergeA2.data) : MergeA2.data[j].size > 1 /\ MergeA2.data[j].value.t = "int"

\* C3: when A.merge(B) overlaps k > 0 bytes, every label and name on byte i < k
\* of B's head sits afterwards on byte |A| - k + i of A, the two segments
\* together emit exactly k cells fewer, and a tail and a head of exactly eight
\* zero bytes overlap with k = 8.
EightZeros(stream) ==
  Len(stream) = 8 /\ \A j \in 1..8 : stream[j].value = IntV(0)

C3_LabelsFollowOverlap ==
  merged.i >= 0 =>
    LET k == merged.k
        lenA == Len(SegCells(MergeA))
    IN /\ k > 0 =>
            /\ \A x \in LabelAddrs(MergeB.data, 0) :
                 (IF x[1] = "post" THEN x[3] <= k ELSE x[3] < k)
                   => <<x[1], x[2], lenA - k + x[3]>> \in LabelAddrs(MergeA2.data, 0)
            /\ Len(SegCells(MergeA2)) + Len(MergeB2Cells)
                 = lenA + Len(SegCells(MergeB)) - k
       /\ (EightZeros(deconstruct_tail(MergeA)[2]) /\ EightZeros(deconstruct_head(MergeB)[1]))
            => k = 8

C3_Witness ==
  /\ merged.i >= 0 /\ merged.k = 8
  /\ EightZeros(deconstruct_tail(MergeA)[2]) /\ EightZeros(deconstruct_head(MergeB)[1])
  /\ <<"pre", MergeB.name, Len(SegCells(MergeA)) - 8>> \in LabelAddrs(MergeA2.data, 0)

----------------------------------------------------------------------------
(* Claims about the fake .bss section *)

\* generate_fake_bss has returned without an exception.
BssDone == pc \in {"bss_done", "merge", "done", "written", "NameError"}

\* The .equ lines of the synthetic .bss section, the last section of the file.
BssLines == sections[Len(sections)].content
EquLines(name) ==
  {j \in DOMAIN BssLines : BssLines[j].k = "equ" /\ BssLines[j].name = name}
EquOf(name) == BssLines[CHOOSE j \in EquLines(name) : TRUE]
BssEnd == EquOf("bss_end").n

\* C4 as stated: after generate_fake_bss every extracted name (any sizes,
\* size 0 included) has exactly one .equ NAME, bss_start + offset, the offset
\* a multiple of 4 and strictly less than bss_end - bss_start.
C4_OffsetsStrictlyInside ==
  BssDone =>
    \A j \in 1..Len(objects) :
      /\ Cardinality(EquLines(ObjNames[j])) = 1
      /\ EquOf(ObjNames[j]).s = "bss_start"
      /\ EquOf(ObjNames[j]).n % 4 = 0
      /\ EquOf(ObjNames[j]).n < BssEnd

\* C4: after generate_fake_bss every extracted name has exactly one
\* .equ NAME, bss_start + offset, the offset a multiple of 4 and at most
\* bss_end - bss_start; it is strictly less for every object of non-zero size.
C4_OffsetsInside ==
  BssDone =>
    \A j \in 1..Len(objects) :
      /\ Cardinality(EquLines(ObjNames[j])) = 1
      /\ EquOf(ObjNames[j]).s = "bss_start"
      /\ EquOf(ObjNames[j]).n % 4 = 0
      /\ EquOf(ObjNames[j]).n <= BssEnd
      /\ objects[j].size > 0 => EquOf(ObjNames[j]).n < BssEnd

C4_Witness ==
  /\ BssDone /\ Len(objects) = 2 /\ BssEnd > 0
  /\ \E j \in 1..2 : objects[j].size = 0 /\ EquOf(ObjNames[j]).n = BssEnd

\* C5 as stated: one extracted object foo of size 17 is bound to
\* bss_start + 0 and bss_end to bss_start + 20.
C5_EndRounded ==
  (BssDone /\ Len(objects) = 1 /\ objects[1].size = 17) =>
    /\ EquOf("foo").s = "bss_start" /\ EquOf("foo").n = 0
    /\ EquOf("bss_end").s = "bss_start" /\ BssEnd = 20

\* C5: one extracted object foo of size 17 is bound to bss_start + 0 and
\* bss_end to bss_start + 17, the unrounded end of the last object.
C5_EndUnrounded ==
  (BssDone /\ Len(objects) = 1 /\ objects[1].size = 17) =>
    /\ EquOf("foo").s = "bss_start" /\ EquOf("foo").n = 0
    /\ EquOf("bss_end").s = "bss_start" /\ BssEnd = 17

C5_Witness ==
  /\ pc = "bss_done" /\ Len(objects) = 1 /\ objects[1].size = 17
  /\ Cardinality(EquLines("foo")) = 1

\* C6: generate_fake_bss returns true exactly when the size bound to
\* bss_end - bss_start is strictly greater than 128 MiB; bss_start is then
\* aligned_end plus the memory page of the platform, and aligned_end + 0
\* when it returns false.
C6_SecondLoadThreshold ==
  BssDone =>
    /\ bss.ret <=> BssEnd > BssLimit
    /\ Cardinality(EquLines("bss_start")) = 1
    /\ EquOf("bss_start").s = "aligned_end"
    /\ EquOf("bss_start").n = IF bss.ret THEN PlatformVarGet("memory_page").n ELSE 0

C6_Witness ==
  /\ pc = "bss_done" /\ BssEnd = BssLimit /\ ~bss.ret /\ EquOf("bss_start").n = 0

----------------------------------------------------------------------------
(* Claims about the composed segments *)

\* The data items of the final source whose comment holds desc.
OutputItems(desc) ==
  {j \in DOMAIN output.segments :
     output.segments[j].k = "data" /\ desc \in Range(output.segments[j].desc)}

\* C7: in the written source e_phnum is 3 exactly when one PT_LOAD header is
\* emitted and 4 exactly when two are, although ehdr was constructed before
\* generate_fake_bss ran and before phdr_count was replaced.
C7_PhdrCount ==
  pc = "written" =>
    /\ Cardinality(OutputItems(DescPhnum)) = 1
    /\ Cardinality(OutputItems(DescLoad)) \in {1, 2}
    /\ \A j \in OutputItems(DescPhnum) :
         /\ output.segments[j].size = 2
         /\ output.segments[j].value = IntV(3) <=> Cardinality(OutputItems(DescLoad)) = 1
         /\ output.segments[j].value = IntV(4) <=> Cardinality(OutputItems(DescLoad)) = 2

C7_Witness ==
  /\ pc = "written" /\ bss.ret
  /\ Cardinality(OutputItems(DescLoad)) = 2
  /\ \E j \in OutputItems(DescPhnum) : output.segments[j].value = IntV(4)

\* Segment sg holds a variable of the given description, size and value.
HasVar(sg, desc, size, value) ==
  \E j \in DOMAIN sg.data :
    desc \in Range(sg.data[j].desc) /\ sg.data[j].size = size /\ sg.data[j].value = value

\* C8: whenever generate_fake_bss asks for the second PT_LOAD, main goes on
\* without an exception on 32-bit and on 64-bit, and the segment list holds
\* phdr_load (filesz and memsz both end - ehdr) immediately followed by
\* phdr_load_bss (vaddr bss_start, filesz 0, memsz bss_end - end, flags 6).
C8_DoubleLoadComposes ==
  (IF BssDone THEN bss.ret ELSE FALSE) =>
    /\ pc \notin ErrorStates
    /\ pc \in {"merge", "done", "written"} =>
         \E j \in 1..(Len(segments) - 1) :
           /\ segments[j].name = "phdr_load"
           /\ HasVar(segments[j], "p_filesz, program size on disk", Addr, SymV("end - ehdr"))
           /\ HasVar(segments[j], "p_memsz, program headers size in memory", Addr,
                     SymV("end - ehdr"))
           /\ segments[j + 1].name = "phdr_load_bss"
           /\ HasVar(segments[j + 1], "p_vaddr, program virtual address", Addr,
                     SymV("bss_start"))
           /\ HasVar(segments[j + 1], "p_filesz, .bss size on disk", Addr, IntV(0))
           /\ HasVar(segments[j + 1], "p_memsz, .bss size in memory", Addr,
                     SymV("bss_end - end"))
           /\ HasVar(segments[j + 1], "p_flags, rw = 6", 4, IntV(6))

\* The variables of a segment list in emission order.
RECURSIVE ListData(_)
ListData(lst) == IF lst = <<>> THEN <<>> ELSE Head(lst).data \o ListData(Tail(lst))

\* The value a run of cells holds: a number for bytes, the expression for the
\* cells of one symbolic variable.
CellsValue(cs) ==
  IF \A j \in DOMAIN cs : cs[j].k = "b" THEN Unpack([j \in DOMAIN cs |-> cs[j].n])
  ELSE IF \A j \in DOMAIN cs : cs[j] = SymCell(cs[1].s, j) THEN SymV(cs[1].s)
  ELSE NoneV

\* The segment list exists: main is at merge_segments or past it.
Listed == pc \in {"merge", "done", "written"}

\* The cell address of a pre-label (the start of its variable) or of a
\* post-label (the end of its variable) in data; -1 when it is on none.
LabelAddr(data, kind, label) ==
  LET on == {j \in DOMAIN data :
               label \in Range(IF kind = "pre" THEN data[j].label_pre
                                ELSE data[j].label_post)}
      j == CHOOSE x \in on : TRUE
  IN IF on = {} THEN -1
     ELSE Len(DataCells(SubSeq(data, 1, IF kind = "pre" THEN j - 1 ELSE j)))

\* The entries (d_tag, d_un) between the labels dynamic and dynamic_end of
\* the segment list.
DynEntries ==
  LET data == ListData(segments)
      cells == DataCells(data)
      a == LabelAddr(data, "pre", "dynamic")
      b == LabelAddr(data, "post", "dynamic_end")
      n == IF a < 0 \/ b < a THEN 0 ELSE (b - a) \div (2 * Addr)
  IN [e \in 1..n |->
        [d_tag |-> CellsValue(SubSeq(cells, a + 2 * Addr * (e - 1) + 1,
                                     a + 2 * Addr * (e - 1) + Addr)),
         d_un |-> CellsValue(SubSeq(cells, a + 2 * Addr * (e - 1) + Addr + 1,
                                    a + 2 * Addr * e))]]

DynWith(entries, tag) == {e \in DOMAIN entries : entries[e].d_tag = IntV(tag)}

\* C9: the dynamic segment of the list holds, with UND symbols, one DT_HASH
\* entry of value hash and one DT_SYMTAB entry of value symtab; without UND
\* symbols one DT_SYMTAB entry of value 0 and no DT_HASH entry, and neither a
\* hash nor a symtab segment is in the list.
C9_DynamicEntries ==
  Listed =>
    LET entries == DynEntries
    IN IF und_symbols # <<>>
       THEN /\ Cardinality(DynWith(entries, 4)) = 1
            /\ \A e \in DynWith(entries, 4) : entries[e].d_un = SymV("hash")
            /\ Cardinality(DynWith(entries, 6)) = 1
            /\ \A e \in DynWith(entries, 6) : entries[e].d_un = SymV("symtab")
       ELSE /\ Cardinality(DynWith(entries, 6)) = 1
            /\ \A e \in DynWith(entries, 6) : entries[e].d_un = IntV(0)
            /\ DynWith(entries, 4) = {}
            /\ \A j \in DOMAIN segments :
                 /\ segments[j].name \notin {"hash", "symtab"}
                 /\ \A i \in DOMAIN segments[j].data :
                      /\ "hash" \notin Range(segments[j].data[i].label_pre)
                      /\ "symtab" \notin Range(segments[j].data[i].label_pre)

C9_Witness ==
  /\ pc = "written" /\ und_symbols # <<>> /\ libraries # <<>>
  /\ \E j \in DOMAIN segments : segments[j].name = "hash"
  /\ Cardinality(DynWith(DynEntries, 4)) = 1

----------------------------------------------------------------------------
(* Claims about the segment builders *)

\* The 32-bit words of the segment under test.
HashWords == [j \in DOMAIN segments[1].data |-> segments[1].data[j].value]
HashAllWords == \A j \in DOMAIN segments[1].data : segments[1].data[j].size = 4

\* C10 as stated: for n UND symbols add_hash leaves the words nbucket = 1,
\* nchain = n + 1, bucket[0] = n, chain[0] = 0 and chain[i] = i for i in 1..n,
\* n + 4 words in all.
C10_ChainIdentity ==
  called.op = "add_hash" =>
    /\ HashAllWords
    /\ HashWords = <<IntV(1), IntV(called.n + 1), IntV(called.n), IntV(0)>>
                   \o [i \in 1..called.n |-> IntV(i)]

\* C10: for n UND symbols add_hash leaves the words nbucket = 1,
\* nchain = n + 1, bucket[0] = n, chain[0] = 0 and chain[i] = i - 1 for i in
\* 1..n, n + 4 words in all.
C10_ChainPredecessor ==
  called.op = "add_hash" =>
    /\ HashAllWords
    /\ Len(HashWords) = called.n + 4
    /\ HashWords = <<IntV(1), IntV(called.n + 1), IntV(called.n), IntV(0)>>
                   \o [i \in 1..called.n |-> IntV(i - 1)]

C10_Witness ==
  /\ called.op = "add_hash" /\ called.n >= 2
  /\ Len(segments[1].data) = called.n + 4

----------------------------------------------------------------------------
(* Claims about the composed string table *)

\* main has composed its segments.
Composed == pc \in {"composed", "read", "bss_done", "merge", "done", "written"} \cup ErrorStates

Reverse(l) == [j \in 1..Len(l) |-> l[Len(l) + 1 - j]]

RECURSIVE SelectIdx(_, _, _)
\* The indices j of data, ascending from j on, whose variable satisfies Test.
SelectIdx(data, Test(_), j) ==
  IF j > Len(data) THEN <<>>
  ELSE (IF Test(data[j]) THEN <<j>> ELSE <<>>) \o SelectIdx(data, Test, j + 1)

\* The d_un expressions of the DT_NEEDED entries of the dynamic segment, in
\* segment order.
NeededRefs ==
  LET data == seg.dynamic.data
      at == SelectIdx(data, LAMBDA v : v.desc = <<"d_tag, DT_NEEDED = 1">>, 1)
  IN [j \in DOMAIN at |-> data[at[j] + 1].value]

\* The st_name expressions of the UND entries of the symtab segment, in
\* segment order.
UndRefs ==
  LET data == seg.symtab.data
      at == SelectIdx(data, LAMBDA v : v.desc = <<"st_name">>, 1)
  IN [j \in DOMAIN at |-> data[at[j]].value]

\* The names of the strtab segment in segment order, each as the expression
\* that refers to the label generate_source gives it.
StrtabRefs ==
  LET data == seg.strtab.data
      at == SelectIdx(data, LAMBDA v : v.value.t = "str", 1)
  IN [j \in DOMAIN at |->
        IF data[at[j]].name = <<>> THEN NoneV
        ELSE SymV(seg.strtab.name \o "_" \o data[at[j]].name[1] \o " - strtab")]

\* The strtab segment is one zero byte, then string literals of size 1 each
\* followed by a zero byte, the literals being the quoted names.
StrtabShape(names) ==
  LET data == seg.strtab.data
  IN /\ Len(data) = 1 + 2 * Len(names)
     /\ data[1].size = 1 /\ data[1].value = IntV(0)
     /\ \A j \in DOMAIN names :
          /\ data[2 * j].size = 1
          /\ data[2 * j].value = StrV("\"" \o names[j] \o "\"")
          /\ data[2 * j + 1].size = 1
          /\ data[2 * j + 1].value = IntV(0)

LibraryNames == [j \in DOMAIN libraries |-> get_library_name(libraries[j])]

\* C11 as stated: the strtab segment is a zero byte, the library names in
\* the reverse of the order of the DT_NEEDED entries of the dynamic segment,
\* then the UND names in symtab order, each name labelled as its DT_NEEDED
\* or st_name expression references it.
C11_StrtabNeededReversed ==
  Composed =>
    /\ Len(NeededRefs) = Len(libraries)
    /\ StrtabRefs = Reverse(NeededRefs) \o UndRefs

\* C11: the strtab segment is a zero byte, the library names in the order of
\* the DT_NEEDED entries of the dynamic segment (the sorted library list),
\* then the UND names in symtab order, each null-terminated and labelled as
\* its DT_NEEDED or st_name expression references it.
C11_StrtabNeededOrder ==
  Composed =>
    /\ Len(NeededRefs) = Len(libraries)
    /\ Len(UndRefs) = Len(und_symbols)
    /\ StrtabShape(LibraryNames \o und_symbols)
    /\ StrtabRefs = NeededRefs \o UndRefs

C11_Witness ==
  /\ pc = "composed" /\ Len(libraries) = 2 /\ und_symbols # <<>>
  /\ Len(seg.strtab.data) = 9

----------------------------------------------------------------------------
(* Claims about the name labels of a segment *)

\* The variables of data that carry label as a pre-label / as a post-label.
PreLabelled(data, label) == {j \in DOMAIN data : label \in Range(data[j].label_pre)}
PostLabelled(data, label) == {j \in DOMAIN data : label \in Range(data[j].label_post)}

\* C12: after any sequence of add_data, add_dt_needed, add_dt_symtab,
\* add_dt_hash, add_strtab and add_hash calls a non-empty segment has the
\* pre-label <name> on its first variable and on no other, and the
\* post-label <name>_end on its last variable and on no other.
C12_NameLabels ==
  pc = "segment" =>
    LET sg == segments[1]
    IN ~segment_empty(sg) =>
         /\ PreLabelled(sg.data, sg.name) = {1}
         /\ PostLabelled(sg.data, end_label(sg.name)) = {Len(sg.data)}

----------------------------------------------------------------------------
(* Specification of AssemblerSection.crunch on the section of the entry    *)
(* point                                                                    *)

MaxRun == 3

\* What the compiler may place between _start: and the stack adjustment.
RunPool ==
  { Line("push", "", 0, "pushq"), Line("push", "", 0, "pushl"),
    Line("xor", "eax", 0, ""), Line("xor", "ebx", 0, "") }

RunChoices == UNION { [1..n -> RunPool] : n \in 0..MaxRun }

SubImmediates == {8, 40}

\* What may stand in front of the exit system call, and behind it.
BeforeExit == { <<>>, <<Line("int", "", 0, "3")>> }

AfterExit ==
  { <<>>, <<Line("insn", "", 0, "ret")>>,
    <<Line("insn", "", 0, "ret"), Line("label", ".L2", 0, ""), Line("insn", "", 0, "hlt")>> }

\* The text section of a compiled source: directives, the entry point with
\* its prologue, the body ending in the exit system call, and what follows.
EntrySection(run, n, before, after) ==
  [AssemblerSection("text", <<>>) EXCEPT !.content =
     << Line("text", "", 0, ""),
        Line("globl", "_start", 0, ""), Line("type", "_start", 0, ""),
        Line("label", "_start", 0, "") >>
     \o run
     \o << Line("sub_sp", "", n, ""),
           Line("insn", "", 0, "call") >>
     \o before
     \o << IF osarch_match("amd64") THEN Line("syscall", "", 0, "")
                                    ELSE Line("int", "", 0, "0x80") >>
     \o after
     \o << Line("size", "_start", 0, "") >>]

InitCrunch ==
  /\ osname = "Linux" /\ osarch \in {"i686", "x86_64"}
  /\ platform_variables = initial_platform_variables
  /\ pc = "crunch"
  /\ avar = Idle /\ bytestream = <<>> /\ rvar = Idle
  /\ segments = <<>> /\ ii = 0 /\ prev = <<>> /\ merged = [i |-> -1, k |-> 0]
  /\ libraries = <<>> /\ objects = <<>>
  /\ \E run \in RunChoices, n \in SubImmediates, before \in BeforeExit, after \in AfterExit :
       sections = <<EntrySection(run, n, before, after)>>
  /\ seg = Idle /\ bss = Idle /\ output = Idle
  /\ called = Idle

\* AssemblerSection.crunch on the section; the tag is dropped at its end.
CrunchSection ==
  /\ pc = "crunch"
  /\ \E cr \in {crunch(sections[1].content)} :
       /\ sections' = <<[sections[1] EXCEPT !.content = cr.content, !.tag = <<>>]>>
       /\ pc' = IF cr.err # "" THEN cr.err ELSE "crunched"
  /\ prev' = sections
  /\ UNCHANGED <<platVars, varVars, segments, ii, merged, libraries, seg, bss, output,
                 objects, called>>

NextCrunch == CrunchSection

SpecCrunch == InitCrunch /\ [][NextCrunch]_vars

----------------------------------------------------------------------------
(* Claims about the excision of the entry prologue *)

\* The index of the line _start: in content, 0 when there is none.
EntryAt(content) ==
  IF \E j \in DOMAIN content : content[j].k = "label" /\ content[j].name = "_start"
  THEN CHOOSE j \in DOMAIN content : content[j].k = "label" /\ content[j].name = "_start"
  ELSE 0

\* The run between _start: and the first sub on the stack pointer.
RunOf(content) ==
  LET e == EntryAt(content)
      s == CHOOSE j \in (e + 1)..Len(content) :
             /\ content[j].k = "sub_sp"
             /\ \A i \in (e + 1)..(j - 1) : content[i].k # "sub_sp"
  IN SubSeq(content, e + 1, s - 1)

RECURSIVE PushSum(_)
PushSum(run) ==
  IF run = <<>> THEN 0
  ELSE (IF Head(run).k # "push" THEN 0
        ELSE IF Head(run).s = "pushq" THEN 8 ELSE 4) + PushSum(Tail(run))

XorLines(run) == SelectSeq(run, LAMBDA l : l.k = "xor")

\* C13: after crunch no push line of the run is left, the xor lines of the
\* run follow _start: in their original order, and the sub that ended the
\* run follows them with its immediate raised by 8 per pushq and 4 per pushl
\* of the run; the line after the sub is the one that followed it before.
C13_PrologueExcision ==
  pc = "crunched" =>
    LET before == prev[1].content
        after == sections[1].content
        run == RunOf(before)
        b == EntryAt(before)
        e == EntryAt(after)
        x == XorLines(run)
    IN /\ e > 0
       /\ \A j \in DOMAIN after : after[j].k # "push"
       /\ SubSeq(after, e + 1, e + Len(x)) = x
       /\ after[e + Len(x) + 1] =
            Line("sub_sp", "", before[b + Len(run) + 1].n + PushSum(run), "")
       /\ after[e + Len(x) + 2] = before[b + Len(run) + 2]

\* Three pushq before sub $40: _start: is followed by sub $64.
C13_Witness ==
  /\ pc = "crunched"
  /\ RunOf(prev[1].content) = [j \in 1..3 |-> Line("push", "", 0, "pushq")]
  /\ prev[1].content[EntryAt(prev[1].content) + 4].n = 40
  /\ sections[1].content[EntryAt(sections[1].content) + 1] = Line("sub_sp", "", 64, "")

----------------------------------------------------------------------------
(* sdbm_hash *)

\* A Python string is the sequence of its characters here; ord() on the
\* characters the names below are written with.
ord(ch) ==
  CASE ch = "C" -> 67 [] ch = "G" -> 71 [] ch = "L" -> 76 [] ch = "_" -> 95
    [] ch = "a" -> 97 [] ch = "c" -> 99 [] ch = "e" -> 101 [] ch = "g" -> 103
    [] ch = "l" -> 108 [] ch = "m" -> 109 [] ch = "o" -> 111 [] ch = "p" -> 112
    [] ch = "r" -> 114 [] ch = "s" -> 115 [] ch = "t" -> 116 [] ch = "u" -> 117
    [] ch = "z" -> 122

\* An unsigned 32-bit quantity as its two 16-bit halves: the product
\* ret * 65599 needs 49 bits.
Word(hi, lo) == [hi |-> hi, lo |-> lo]

\* Mutant: the multiplier is 65536 + 31.
sdbm_step_31(ret, ch) ==
  LET low == 31 * ret.lo + ord(ch)
  IN Word((ret.lo + 31 * ret.hi + (low \div 65536)) % 65536, low % 65536)

\* (ret * 65599 + ord(ii)) & 0xFFFFFFFF, with 65599 = 65536 + 63.
sdbm_step(ret, ch) ==
  LET low == 63 * ret.lo + ord(ch)
  IN Word((ret.lo + 63 * ret.hi + (low \div 65536)) % 65536, low % 65536)

RECURSIVE sdbm_loop(_, _)
sdbm_loop(name, ret) ==
  IF name = <<>> THEN ret ELSE sdbm_loop(Tail(name), sdbm_step(ret, Head(name)))

HexDigits == <<"0", "1", "2", "3", "4", "5", "6", "7", "8", "9",
               "a", "b", "c", "d", "e", "f">>

RECURSIVE hex_digits(_)
\* The hexadecimal digits of n > 0, most significant first.
hex_digits(n) ==
  IF n = 0 THEN <<>> ELSE hex_digits(n \div 16) \o <<HexDigits[(n % 16) + 1]>>

\* n < 65536 as exactly four hexadecimal digits.
hex_digits4(n) ==
  <<HexDigits[(n \div 4096) + 1], HexDigits[((n \div 256) % 16) + 1],
    HexDigits[((n \div 16) % 16) + 1], HexDigits[(n % 16) + 1]>>

\* hex() of a number: 0x, the digits without leading zeros, and the suffix L
\* where the interpreter holds the number as a long.
hex_text(ret, long) ==
  <<"0", "x">>
  \o (IF ret.hi = 0 THEN (IF ret.lo = 0 THEN <<"0">> ELSE hex_digits(ret.lo))
      ELSE hex_digits(ret.hi) \o hex_digits4(ret.lo))
  \o (IF long THEN <<"L">> ELSE <<>>)

\* sdbm_hash: the text hex() gives for the hash of name. long tells whether
\* the masked value is a long of the interpreter; the initial 0 never is.
sdbm_hash(name, long) == hex_text(sdbm_loop(name, Word(0, 0)), long /\ name # <<>>)

----------------------------------------------------------------------------
(* Specification of sdbm_hash on bounded names *)

MaxName == 4

NameAlphabet == {"a", "z", "_"}

NamePool ==
  UNION { [1..n -> NameAlphabet] : n \in 0..MaxName }
  \cup { <<"m", "a", "l", "l", "o", "c">>, <<"g", "l", "C", "l", "e", "a", "r">> }

InitHash ==
  /\ osname = "Linux" /\ osarch \in {"i686", "x86_64"}
  /\ platform_variables = initial_platform_variables
  /\ pc = "hash"
  /\ avar = Idle /\ bytestream = <<>> /\ rvar = Idle
  /\ segments = <<>> /\ ii = 0 /\ prev = <<>> /\ merged = [i |-> -1, k |-> 0]
  /\ libraries = <<>> /\ objects = <<>>
  /\ sections = <<>> /\ seg = Idle /\ bss = Idle /\ output = Idle
  /\ \E name \in NamePool : called = Call("sdbm_hash", name)

\* One call of sdbm_hash on the name.
SdbmHash ==
  /\ pc = "hash"
  /\ \E long \in BOOLEAN : output' = sdbm_hash(called.n, long)
  /\ pc' = "hashed"
  /\ UNCHANGED <<platVars, varVars, mergeVars, libraries, sections, seg, bss, objects,
                 called>>

NextHash == SdbmHash

SpecHash == InitHash /\ [][NextHash]_vars

----------------------------------------------------------------------------
(* Claims about sdbm_hash *)

\* The number a hex() text denotes, as a Word; Word(-1, -1) when the text is
\* not 0x followed by one to eight digits and an optional L.
HexDigitValue(ch) ==
  IF \E d \in DOMAIN HexDigits : HexDigits[d] = ch
  THEN (CHOOSE d \in DOMAIN HexDigits : HexDigits[d] = ch) - 1
  ELSE -1

HexValue(text) ==
  LET body == IF text # <<>> /\ text[Len(text)] = "L"
              THEN SubSeq(text, 3, Len(text) - 1) ELSE SubSeq(text, 3, Len(text))
      padded == [j \in 1..(8 - Len(body)) |-> "0"] \o body
      d == [j \in 1..8 |-> HexDigitValue(padded[j])]
  IN IF Len(text) < 3 \/ SubSeq(text, 1, 2) # <<"0", "x">> \/ Len(body) \notin 1..8
        \/ \E j \in DOMAIN body : HexDigitValue(body[j]) < 0
     THEN Word(-1, -1)
     ELSE Word(4096 * d[1] + 256 * d[2] + 16 * d[3] + d[4],
               4096 * d[5] + 256 * d[6] + 16 * d[7] + d[8])

\* h * 65599 + c mod 2^32 on the four base-256 digits of h, least
\* significant first.
FoldStep(h, c) ==
  LET p1 == h[1] * 65599 + c
      p2 == h[2] * 65599 + (p1 \div 256)
      p3 == h[3] * 65599 + (p2 \div 256)
      p4 == h[4] * 65599 + (p3 \div 256)
  IN <<p1 % 256, p2 % 256, p3 % 256, p4 % 256>>

RECURSIVE Fold(_, _)
Fold(s, h) == IF s = <<>> THEN h ELSE Fold(Tail(s), FoldStep(h, ord(Head(s))))

FoldWord(s) ==
  LET h == Fold(s, <<0, 0, 0, 0>>) IN Word(256 * h[4] + h[3], 256 * h[2] + h[1])

Malloc == <<"m", "a", "l", "l", "o", "c">>
GlClear == <<"g", "l", "C", "l", "e", "a", "r">>

\* C14 as stated: sdbm_hash(s) is the fold h := (h * 65599 + c) mod 2^32
\* from 0 over the characters of s, in 0..2^32-1; 0 for the empty string,
\* 0x06405a2c for "malloc" and 0xb64ff5c6 for "glClear".
C14_SdbmExamples ==
  pc = "hashed" =>
    /\ HexValue(output) = FoldWord(called.n)
    /\ HexValue(output).hi \in 0..65535 /\ HexValue(output).lo \in 0..65535
    /\ called.n = <<>> => HexValue(output) = Word(0, 0)
    /\ called.n = Malloc => HexValue(output) = Word(1600, 23084)
    /\ called.n = GlClear => HexValue(output) = Word(46671, 62918)

\* C14: sdbm_hash(s) is the fold h := (h * 65599 + c) mod 2^32 from 0 over
\* the characters of s, in 0..2^32-1; 0 for the empty string, 0x03f31de8 for
\* "malloc" and 0x1fd92088 for "glClear".
C14_SdbmFold ==
  pc = "hashed" =>
    /\ HexValue(output) = FoldWord(called.n)
    /\ HexValue(output).hi \in 0..65535 /\ HexValue(output).lo \in 0..65535
    /\ called.n = <<>> => HexValue(output) = Word(0, 0)
    /\ called.n = Malloc => HexValue(output) = Word(1011, 7656)
    /\ called.n = GlClear => HexValue(output) = Word(8153, 8328)

C14_Witness ==
  /\ pc = "hashed" /\ called.n = Malloc
  /\ output = <<"0", "x", "3", "f", "3", "1", "d", "e", "8">>

----------------------------------------------------------------------------
(* Specification of AssemblerFile read from a file and written back *)

MaxLines == 4

\* Lines of an assembler file: two section directives and two other lines.
FileLinePool ==
  { Line("section", "rodata", 0, ""), Line("section", "note", 0, ""),
    Line("section", "text", 0, ""),
    Line("insn", "", 0, "a"), Line("insn", "", 0, "b") }

FileChoices == UNION { [1..n -> FileLinePool] : n \in 0..MaxLines }

InitFile ==
  /\ osname = "Linux" /\ osarch = "x86_64"
  /\ platform_variables = initial_platform_variables
  /\ pc = "file"
  /\ avar = Idle /\ bytestream = <<>> /\ rvar = Idle
  /\ segments = <<>> /\ ii = 0 /\ prev = <<>> /\ merged = [i |-> -1, k |-> 0]
  /\ libraries = <<>> /\ objects = <<>>
  /\ sections = <<>> /\ seg = Idle /\ bss = Idle /\ output = Idle
  /\ \E lines \in FileChoices : called = Call("AssemblerFile", lines)

\* asm = AssemblerFile(filename)
FileRead ==
  /\ pc = "file"
  /\ sections' = AssemblerFile(called.n)
  /\ pc' = "file_read"
  /\ UNCHANGED <<platVars, varVars, mergeVars, libraries, seg, bss, output, objects, called>>

\* asm.write(filename, assembler): every section written to the new file.
FileWrite ==
  /\ pc = "file_read"
  /\ output' = write_sections(sections)
  /\ pc' = "file_written"
  /\ UNCHANGED <<platVars, varVars, mergeVars, libraries, sections, seg, bss, objects,
                 called>>

\* asm.remove_rodata() of the "hash" mode.
RemoveRodata ==
  /\ pc = "file_read"
  /\ \E r \in {remove_rodata(sections)} :
       /\ sections' = r.sections
       /\ pc' = IF r.err # "" THEN r.err ELSE "rodata_removed"
  /\ prev' = sections
  /\ UNCHANGED <<platVars, varVars, segments, ii, merged, libraries, seg, bss, output,
                 objects, called>>

NextFile == FileRead \/ FileWrite \/ RemoveRodata

SpecFile == InitFile /\ [][NextFile]_vars

----------------------------------------------------------------------------
(* Claims about the assembler file *)

\* C15: an AssemblerFile constructed from any sequence of lines and written
\* back without crunching emits exactly the lines read, in their order.
C15_FileRoundTrip ==
  pc = "file_written" => output = called.n

----------------------------------------------------------------------------
(* Specification of two runs of main() on the same inputs *)

\* Symbol objects of library_definitions, names and library names as
\* character sequences.
Symbol(name, library) == [name |-> name, library |-> library]

SymbolPool ==
  { Symbol(<<"m", "a", "l", "l", "o", "c">>, <<"c">>),
    Symbol(<<"p", "u", "t", "s">>, <<"c">>),
    Symbol(<<"g", "l", "C", "l", "e", "a", "r">>, <<"G", "L">>) }

RECURSIVE StrLess(_, _)
\* a < b on Python strings.
StrLess(a, b) ==
  IF b = <<>> THEN FALSE
  ELSE IF a = <<>> THEN TRUE
  ELSE IF ord(Head(a)) # ord(Head(b)) THEN ord(Head(a)) < ord(Head(b))
  ELSE StrLess(Tail(a), Tail(b))

\* Symbol.__lt__
symbol_lt(a, b) ==
  IF StrLess(a.library, b.library) THEN TRUE
  ELSE IF StrLess(b.library, a.library) THEN FALSE
  ELSE StrLess(a.name, b.name)

\* The lists holding every element of the set once.
Listings(set) ==
  { order \in [1..Cardinality(set) -> set] :
      \A i, j \in DOMAIN order : i # j => order[i] # order[j] }

\* sorted(symbols)
sorted_symbols(order) ==
  CHOOSE l \in Listings(Range(order)) :
    \A i, j \in DOMAIN l : i < j => ~symbol_lt(l[j], l[i])

Modes == {"vanilla", "dlfcn", "hash", "maximum"}

\* What one run writes: the rename macros of generate_symbol_definitions,
\* the struct members and hash initialisers of generate_symbol_struct, and
\* in maximum mode the merged segment list. order is the list find_symbols
\* builds by iterating the set analyze_source returned.
run_main(mode, order, libs) ==
  LET symbols == IF mode = "dlfcn" THEN sorted_symbols(order) ELSE order
  IN [done |-> TRUE,
      renames |-> [j \in DOMAIN symbols |-> symbols[j].name],
      members |-> IF mode = "vanilla" THEN <<>>
                  ELSE [j \in DOMAIN symbols |-> symbols[j].name],
      hashes |-> IF mode \in {"vanilla", "dlfcn"} THEN <<>>
                 ELSE [j \in DOMAIN symbols |->
                         sdbm_hash(symbols[j].name, osarch_is_32_bit)],
      segments |-> IF mode = "maximum"
                   THEN merge_segments(segment_list(compose_segments(libs), FALSE), 0)
                   ELSE <<>>]

NotRun == [done |-> FALSE, renames |-> <<>>, members |-> <<>>, hashes |-> <<>>,
           segments |-> <<>>]

InitRuns ==
  /\ osname \in {"Linux", "FreeBSD"} /\ osarch \in {"i686", "x86_64"}
  /\ platform_variables = initial_platform_variables
  /\ pc = "runs"
  /\ avar = Idle /\ bytestream = <<>> /\ rvar = Idle
  /\ segments = <<>> /\ ii = 0 /\ prev = <<>> /\ merged = [i |-> -1, k |-> 0]
  /\ libraries \in LibChoices /\ objects = <<>>
  /\ sections = <<>> /\ seg = Idle /\ bss = Idle
  /\ output = <<NotRun, NotRun>>
  /\ \E mode \in Modes, symbols \in SUBSET SymbolPool : called = Call(mode, symbols)

\* One run of main to its end. The set of symbol names is iterated in an
\* order the inputs do not fix.
RunMain ==
  /\ pc = "runs"
  /\ \E r \in 1..2 :
       /\ ~output[r].done
       /\ \E order \in Listings(called.n) :
            output' = [output EXCEPT ![r] = run_main(called.op, order, libraries)]
  /\ UNCHANGED <<platVars, pc, varVars, mergeVars, libraries, sections, seg, bss, objects,
                 called>>

NextRuns == RunMain

SpecRuns == InitRuns /\ [][NextRuns]_vars

----------------------------------------------------------------------------
(* Claims about repeated runs *)

\* C16: two runs on the same inputs write the same header (rename macros,
\* struct members and hash initialisers in the same order) and the same
\* merged segment list.
C16_RunsIdentical ==
  (pc = "runs" /\ output[1].done /\ output[2].done) => output[1] = output[2]

----------------------------------------------------------------------------
(* Specification of the build pipeline of main(): the external tools run   *)
(* through run_command, in the order of each compilation mode              *)

\* Mutant: the exit code is not looked at.
run_command_unchecked(returncode) == ""

\* run_command: RuntimeError on a nonzero exit code of the tool.
run_command(returncode) == IF 0 # returncode THEN "RuntimeError" ELSE ""

ExitCodes == {0, 1, 2}

Compressions == {"lzma", "raw", "xz"}

\* The tool main runs after stage in the given mode, "finished" after the
\* last one.
next_stage(mode, stage) ==
  IF mode = "maximum"
  THEN CASE stage = "preprocess" -> "compile_asm"
         [] stage = "compile_asm" -> "assemble"
         [] stage = "assemble" -> "linker_verbose"
         [] stage = "linker_verbose" -> "link_binary"
         [] stage = "link_binary" -> "readelf"
         [] stage = "readelf" -> "xz"
         [] OTHER -> "finished"
  ELSE IF mode = "hash"
  THEN CASE stage = "preprocess" -> "compile_asm"
         [] stage = "compile_asm" -> "assemble"
         [] stage = "assemble" -> "linker_verbose"
         [] stage = "linker_verbose" -> "link"
         [] stage = "link" -> "strip"
         [] stage = "strip" -> "xz"
         [] OTHER -> "finished"
  ELSE CASE stage = "preprocess" -> "compile_and_link"
         [] stage = "compile_and_link" -> "strip"
         [] stage = "strip" -> "xz"
         [] OTHER -> "finished"

\* The files the script or the tool has written once the stage succeeded;
\* output is the final compressed file.
stage_files(stage) ==
  CASE stage = "preprocess" -> {"header"}
    [] stage = "compile_asm" -> {".S", ".final.S"}
    [] stage = "assemble" -> {".o"}
    [] stage = "linker_verbose" -> {".ld"}
    [] stage = "readelf" -> {".stripped"}
    [] stage = "strip" -> {}
    [] stage = "xz" -> {"output"}
    [] OTHER -> {".unprocessed"}

\* Files the script writes itself before the tool of the stage is started.
stage_files_before(stage) == IF stage = "strip" THEN {".stripped"} ELSE {}

InitPipe ==
  /\ osname \in {"Linux", "FreeBSD"} /\ osarch \in {"i686", "x86_64"}
  /\ platform_variables = initial_platform_variables
  /\ pc = "preprocess"
  /\ avar = Idle /\ bytestream = <<>> /\ rvar = Idle
  /\ segments = <<>> /\ ii = 0 /\ prev = <<>> /\ merged = [i |-> -1, k |-> 0]
  /\ libraries = <<>> /\ objects = <<>>
  /\ sections = <<>> /\ seg = Idle /\ bss = Idle
  /\ output = [started |-> <<>>, codes |-> <<>>, files |-> {}]
  /\ \E mode \in Modes, compression \in Compressions : called = Call(mode, compression)

\* The tool of the stage is run through run_command and main goes on to
\* the next tool, or the exception of run_command ends the script.
Tool(stage) ==
  /\ pc = stage
  /\ \E returncode \in ExitCodes :
       \E err \in {run_command(returncode)} :
         /\ output' = [started |-> Append(output.started, stage),
                       codes |-> Append(output.codes, returncode),
                       files |-> output.files \cup stage_files_before(stage)
                                 \cup (IF err = "" THEN stage_files(stage) ELSE {})]
         /\ pc' = IF err = "" THEN next_stage(called.op, stage) ELSE err
  /\ UNCHANGED <<platVars, varVars, mergeVars, libraries, sections, seg, bss, objects,
                 called>>

Preprocess == Tool("preprocess")
CompileAsm == Tool("compile_asm")
CompileAndLink == Tool("compile_and_link")
Assemble == Tool("assemble")
GenerateLinkerScript == Tool("linker_verbose")
Link == Tool("link")
LinkBinary == Tool("link_binary")
ReadelfTruncate == Tool("readelf")
Strip == Tool("strip")
CompressFile == Tool("xz")

NextPipe ==
  \/ Preprocess \/ CompileAsm \/ CompileAndLink \/ Assemble \/ GenerateLinkerScript
  \/ Link \/ LinkBinary \/ ReadelfTruncate \/ Strip \/ CompressFile

SpecPipe == InitPipe /\ [][NextPipe]_vars

----------------------------------------------------------------------------
(* Claims about the build pipeline *)

\* C17: in every mode, a tool that exits with a nonzero code is the last
\* one started, the script ends there and the compressed output file is
\* not written.
C17_ToolFailureAborts ==
  \A j \in DOMAIN output.codes :
    output.codes[j] # 0 =>
      /\ j = Len(output.started)
      /\ pc = "RuntimeError"
      /\ "output" \notin output.files

C17_Witness ==
  /\ called.op = "maximum" /\ pc = "RuntimeError"
  /\ output.started =
       <<"preprocess", "compile_asm", "assemble", "linker_verbose", "link_binary">>
  /\ output.codes[5] = 2


----------------------------------------------------------------------------
(* Claims about the overlap AssemblerSegment.merge chooses *)

MergeTail == deconstruct_tail(MergeA)[2]
MergeHead == deconstruct_head(MergeB)[1]

\* The byte the assembler emits for an element of a deconstructed stream.
SameByte(a, b) == Len(VarCells(a)) = 1 /\ VarCells(a) = VarCells(b)

\* The overlaps k whose k pairs of bytes all satisfy Same.
Overlaps(src, dst, Same(_, _)) ==
  {k \in 1..Min(Len(src), Len(dst)) :
     \A j \in 1..k : Same(src[Len(src) - k + j], dst[j])}

MaxOf(S) == IF S = {} THEN 0 ELSE CHOOSE k \in S : \A m \in S : m <= k

ByteOverlaps == Overlaps(MergeTail, MergeHead, SameByte)

\* Two bytes the code merges: equal emitted bytes whose values are plain
\* numbers, not PlatformVar objects.
SameNumber(a, b) == SameByte(a, b) /\ a.value.t = "int" /\ b.value.t = "int"

NumberOverlaps == Overlaps(MergeTail, MergeHead, SameNumber)

----------------------------------------------------------------------------
(* Claims about the labels of a merged segment list *)

\* The labels <name> and <name>_end that refresh_name_label and
\* refresh_name_end_label give the segments of the list.
ListNames == {SegNames[j] : j \in 1..MaxSegs}

\* Every value the expression <name>_end - <name> can take in the list: the
\* distances in cells from a variable carrying the label <name> in front of
\* it to a variable carrying <name>_end behind it.
SizeExpr(lst, name) ==
  LET at == LabelAddrs(ListData(lst), 0)
  IN {e[3] - s[3] : s \in {x \in at : x[1] = "pre" /\ x[2] = name},
                    e \in {x \in at : x[1] = "post" /\ x[2] = end_label(name)}}

\* C19: before merge_segments touches the list <name>_end - <name> is the
\* byte length of the segment, and every iteration of merge_segments leaves
\* that distance as it was, for every segment of the list.
C19_SizeExpressionsKept ==
  /\ merged.i < 0 =>
       \A j \in 1..Len(segments) :
         ~segment_empty(segments[j]) =>
           SizeExpr(segments, segments[j].name) = {Len(SegCells(segments[j]))}
  /\ merged.i >= 0 =>
       \A name \in ListNames : SizeExpr(segments, name) = SizeExpr(prev, name)

\* The variables of the list a label is attached to, as <<index, kind>>.
Attached(lst, label) ==
  LET data == ListData(lst)
  IN {<<j, "pre">> : j \in {x \in DOMAIN data : label \in Range(data[x].label_pre)}}
     \cup {<<j, "post">> : j \in {x \in DOMAIN data : label \in Range(data[x].label_post)}}

ListLabels == ListNames \cup {end_label(n) : n \in ListNames}

\* C20: the labels of an unmerged list are pairwise distinct, and a label
\* that is attached to exactly one variable before an iteration of
\* merge_segments is attached to exactly one variable after it.
C20_LabelsOnExactlyOneVariable ==
  /\ merged.i < 0 => \A l \in ListLabels : Cardinality(Attached(segments, l)) <= 1
  /\ merged.i >= 0 =>
       \A l \in ListLabels :
         Cardinality(Attached(prev, l)) = 1 => Cardinality(Attached(segments, l)) = 1


----------------------------------------------------------------------------
(* Claims about the program header table in the merged list *)

PhdrNames == {"phdr_load", "phdr_load_bss", "phdr_dynamic", "phdr_interp"}

\* The value of <name>_end - <name> in the segment list.
SizeOf(name) ==
  LabelAddr(ListData(segments), "post", end_label(name))
    - LabelAddr(ListData(segments), "pre", name)

\* The offset of the label <name> from the label ehdr.
OffsetOf(name) ==
  LabelAddr(ListData(segments), "pre", name) - LabelAddr(ListData(segments), "pre", "ehdr")

\* The program headers of the list, in list order.
PhdrList == SelectSeq([j \in 1..Len(segments) |-> segments[j].name],
                      LAMBDA n : n \in PhdrNames)

\* C21: merge_segments overlaps nothing when the second segment of the pair
\* is a program header, and in the list it works on the program headers are
\* entries of equal size phdr_load_end - phdr_load, one after the other from
\* offset ehdr_end - ehdr.
C21_PhdrArrayContiguous ==
  /\ (pc \in {"merge", "done"} /\ merged.i >= 0 /\ MergeB.name \in PhdrNames)
       => merged.k = 0
  /\ Listed =>
       \A j \in 1..Len(PhdrList) :
         /\ SizeOf(PhdrList[j]) = SizeOf("phdr_load")
         /\ OffsetOf(PhdrList[j]) = SizeOf("ehdr") + (j - 1) * SizeOf("phdr_load")

\* merge_segments has returned on a list with four program headers.
C21_Witness ==
  /\ pc = "done" /\ merged.i >= 3
  /\ Len(PhdrList) = 4 /\ PhdrList[2] = "phdr_load_bss"
  /\ SizeOf("phdr_load") = 32


----------------------------------------------------------------------------
(* Claims about the loop of merge_segments *)

\* The guard of MergeStep; every MergeStep changes ii or the list, so this
\* is ENABLED <<MergeStep>>_vars.
MergeStepEnabled == pc = "merge" /\ ii + 1 < Len(segments)

\* merge_segments runs without interruption: weak fairness of the iteration
\* (written out with its guard) and of the return.
SpecMergeFair ==
  /\ SpecMerge
  /\ ([]<>(~MergeStepEnabled) \/ []<><<MergeStep>>_vars)
  /\ WF_vars(MergeReturn)

ListOrder(lst) == [j \in 1..Len(lst) |-> lst[j].name]

\* One iteration of merge_segments seen from outside: the pair is
\* segments[ii + 1], segments[ii + 2], the overlap is merged'.k, and the
\* second segment became empty when the overlap is all of its bytes.
IterationRule ==
  (pc = "merge" /\ pc' = "merge") =>
    LET B == segments[ii + 2]
        became_empty == merged'.k >= Len(SegCells(B))
    IN IF merged'.k > 0 /\ became_empty
       THEN /\ ii' = ii
            /\ ListOrder(segments') = RemoveAt(ListOrder(segments), ii + 2)
       ELSE /\ ii' = ii + 1
            /\ ListOrder(segments') = ListOrder(segments)
            /\ merged'.k = 0 => segments' = segments

\* C22: merge_segments returns on every list; an iteration that merged and
\* emptied lst[i+1] deletes it and keeps i, every other iteration advances i
\* and deletes nothing; the order of the surviving segments is kept and no
\* segment of the list is empty when none was before.
C22_MergeSegmentsTerminates ==
  /\ [](pc = "merge" => <>(pc = "done"))
  /\ [](MergeStepEnabled =>
          \E r \in {merge_segments_step(segments, ii)} :
             r.i = ii + 1 \/ Len(r.lst) < Len(segments))
  /\ [][IterationRule]_vars
  /\ [](\A j \in 1..Len(segments) : j < Len(segments) => ~segment_empty(segments[j]))
  /\ [](pc \in {"merge", "done"} => \A j \in 1..Len(segments) : ~segment_empty(segments[j]))

\* merge_segments returned after an iteration that deleted an emptied
\* segment, with an earlier iteration having advanced.
C22_Witness ==
  /\ pc = "done" /\ merged.i >= 1 /\ merged.k > 0 /\ MergeBDeleted


----------------------------------------------------------------------------
(* Claims about the layout of the fake .bss section *)

\* The .equ lines of the extracted objects, in the order they were written
\* (the order of extraction).
ObjectEqus == SelectSeq(BssLines, LAMBDA l : l.k = "equ" /\ l.s = "bss_start"
                                             /\ l.name # "bss_end")

\* The size the source gives the object of that name.
ObjectSize(name) ==
  objects[CHOOSE j \in 1..Len(objects) : ObjNames[j] = name].size

\* C23: in extraction order every object starts at or after the end of the
\* one before it, the first starts at 0, and bss_end - bss_start is at least
\* the end of the last.
C23_ObjectsDoNotOverlap ==
  BssDone =>
    LET e == ObjectEqus
    IN /\ Len(e) = Len(objects)
       /\ e # <<>> =>
            /\ e[1].n = 0
            /\ BssEnd >= e[Len(e)].n + ObjectSize(e[Len(e)].name)
       /\ \A j \in 1..(Len(e) - 1) :
            e[j + 1].n >= e[j].n + ObjectSize(e[j].name)

\* Two objects, the first of a size that is not a multiple of four, and a
\* common symbol written before a global object but extracted after it.
C23_Witness ==
  /\ BssDone /\ Len(ObjectEqus) = 2
  /\ ObjectSize(ObjectEqus[1].name) = 17 /\ ObjectEqus[2].n = 20
  /\ ObjectEqus[1].name = ObjNames[2]


----------------------------------------------------------------------------
(* Specification of extract_globl_object on one section *)

MaxContent == 5

\* Lines a compiled section may hold around a zero-initialised object.
ContentPool ==
  { Line("globl", "foo", 0, ""), Line("type_object", "foo", 0, ""),
    Line("label", "foo", 0, ""), Line("zero", "", 17, ""),
    Line("size", "foo", 17, ""), Line("label", "bar", 0, "") }

ContentChoices == UNION { [1..n -> ContentPool] : n \in 0..MaxContent }

InitExtract ==
  /\ osname = "Linux" /\ osarch = "i686"
  /\ platform_variables = initial_platform_variables
  /\ pc = "extract"
  /\ avar = Idle /\ bytestream = <<>> /\ rvar = Idle
  /\ segments = <<>> /\ ii = 0 /\ prev = <<>> /\ merged = [i |-> -1, k |-> 0]
  /\ libraries = <<>> /\ objects = <<>>
  /\ \E c \in ContentChoices :
       sections = <<[AssemblerSection("text", <<>>) EXCEPT !.content = c]>>
  /\ seg = Idle /\ bss = Idle /\ output = Idle
  /\ called = Idle

\* AssemblerSection.extract_globl_object on the section: output is what it
\* returns, prev the section before the call.
ExtractGloblObject ==
  /\ pc = "extract"
  /\ \E g \in {extract_globl_object(sections[1].content, 1)} :
       /\ sections' = <<[sections[1] EXCEPT !.content = g.content]>>
       /\ output' = [found |-> g.found, name |-> g.name, size |-> g.size]
  /\ prev' = sections
  /\ pc' = "extracted"
  /\ UNCHANGED <<platVars, varVars, segments, ii, merged, libraries, seg, bss,
                 objects, called>>

NextExtract == ExtractGloblObject

SpecExtract == InitExtract /\ [][NextExtract]_vars

\* The four lines of an object NAME of SIZE bytes stand at p .. p + 3.
FourLinesAt(content, p, name, size) ==
  /\ p + 3 <= Len(content)
  /\ content[p] = Line("globl", name, 0, "")
  /\ content[p + 1] = Line("type_object", name, 0, "")
  /\ content[p + 2] = Line("label", name, 0, "")
  /\ content[p + 3] = Line("zero", "", size, "")

\* C24: when extract_globl_object returns (NAME, SIZE) the section held the
\* four lines .globl NAME, .type NAME,@object, NAME:, .zero SIZE one after
\* the other, and afterwards it holds every line but those four, in order.
C24_ExtractsFourLines ==
  (pc = "extracted" /\ output.found) =>
    \E p \in 1..Len(prev[1].content) :
      /\ FourLinesAt(prev[1].content, p, output.name, output.size)
      /\ sections[1].content = erase(prev[1].content, p, p + 3)


----------------------------------------------------------------------------
(* Claims about the exit epilogue *)

\* The line is the exit system call of the platform.
IsExitCall(l) ==
  IF osarch_match("amd64") THEN l.k = "syscall"
  ELSE l.k = "int" /\ l.s \in {"0x80", "128"}

\* The index of the first exit system call of content, 0 when it has none.
ExitCallAt(content) ==
  IF \E j \in DOMAIN content : IsExitCall(content[j])
  THEN CHOOSE j \in DOMAIN content :
         IsExitCall(content[j]) /\ \A m \in 1..(j - 1) : ~IsExitCall(content[m])
  ELSE 0

\* The lines of content from its first label behind index j on that crunch
\* does not remove as directives.
FromNextLabel(content, j) ==
  LET labels == {m \in (j + 1)..Len(content) : content[m].k = "label"}
      first == CHOOSE m \in labels : \A x \in labels : m <= x
  IN IF labels = {} THEN <<>>
     ELSE SelectSeq(SubSeq(content, first, Len(content)),
                    LAMBDA l : l.k \notin CrunchedKinds)

\* C25: in a crunched section the exit system call is kept and is followed
\* directly by the next label line of the section (or by nothing when no
\* label follows), and that label and every line behind it are kept.
C25_EpilogueExcision ==
  pc = "crunched" =>
    LET before == prev[1].content
        after == sections[1].content
        e == ExitCallAt(after)
    IN /\ (e > 0) = (ExitCallAt(before) > 0)
       /\ e > 0 =>
            SubSeq(after, e + 1, Len(after)) = FromNextLabel(before, ExitCallAt(before))


----------------------------------------------------------------------------
(* Claims about remove_rodata *)

\* The text section a rodata section at index j of secs belongs to: the
\* nearest text section in front of it, else the last text section; 0 when
\* the file has none.
RodataTarget(secs, j) ==
  LET texts == {t \in DOMAIN secs : secs[t].name = "text"}
      front == {t \in texts : t < j}
  IN IF front # {} THEN CHOOSE t \in front : \A x \in front : x <= t
     ELSE IF texts # {} THEN CHOOSE t \in texts : \A x \in texts : x <= t
     ELSE 0

\* The lines of the rodata sections of secs[j..] that belong to text section t.
RECURSIVE RodataFor(_, _, _)
RodataFor(secs, t, j) ==
  IF j > Len(secs) THEN <<>>
  ELSE (IF secs[j].name = "rodata" /\ RodataTarget(secs, j) = t /\ j > t
        THEN secs[j].content ELSE <<>>)
       \o RodataFor(secs, t, j + 1)

\* The same for the rodata sections in front of every text section.
RECURSIVE RodataBefore(_, _, _)
RodataBefore(secs, t, j) ==
  IF j >= t THEN <<>>
  ELSE (IF secs[j].name = "rodata" /\ RodataTarget(secs, j) = t
        THEN secs[j].content ELSE <<>>)
       \o RodataBefore(secs, t, j + 1)

RECURSIVE CountLines(_)
CountLines(secs) ==
  IF secs = <<>> THEN 0 ELSE Len(Head(secs).content) + CountLines(Tail(secs))

\* C26: after remove_rodata no rodata section is left; the sections kept
\* are the others in their order; a text section holds its own lines, then
\* the lines of the rodata sections that followed it before the next text
\* section, in order (then those of rodata sections in front of every text
\* section, for the last text section); every other section is unchanged and
\* the number of content lines is the same.
C26_RodataMerged ==
  pc = "rodata_removed" =>
    LET kept == SelectSeq([j \in 1..Len(prev) |-> j], LAMBDA j : prev[j].name # "rodata")
    IN /\ \A j \in 1..Len(sections) : sections[j].name # "rodata"
       /\ Len(sections) = Len(kept)
       /\ \A j \in 1..Len(kept) :
            LET before == prev[kept[j]]
            IN /\ sections[j].name = before.name /\ sections[j].tag = before.tag
               /\ sections[j].content =
                    IF before.name = "text"
                    THEN before.content \o RodataFor(prev, kept[j], 1)
                         \o RodataBefore(prev, kept[j], 1)
                    ELSE before.content
       /\ CountLines(sections) = CountLines(prev)

\* A rodata section with lines was appended to the second of two text
\* sections.
C26_Witness ==
  /\ pc = "rodata_removed" /\ Len(sections) >= 2 /\ Len(prev) > Len(sections)
  /\ sections[1].name = "text" /\ sections[1].content = <<>>
  /\ sections[2].name = "text" /\ sections[2].content # <<>>
  /\ prev[2].content = <<>>


----------------------------------------------------------------------------
(* Specification of the dynamic segment under add_dt_* and composition *)

MaxCalls == 3

InitDynamic ==
  /\ osname \in {"Linux", "FreeBSD"} /\ osarch \in {"i686", "x86_64"}
  /\ platform_variables = initial_platform_variables
  /\ pc = "dynamic"
  /\ avar = Idle /\ bytestream = <<>> /\ rvar = Idle
  /\ segments = <<assembler_dynamic>>
  /\ ii = 0 /\ prev = <<>> /\ merged = [i |-> -1, k |-> 0]
  /\ libraries = <<>> /\ objects = <<>>
  /\ sections = <<>> /\ seg = Idle /\ bss = Idle /\ output = Idle
  /\ called = Call("init", 0)

DynCanAdd == pc = "dynamic" /\ Len(segments[1].data) < 6 + 2 * MaxCalls

DynAddDtSymtab ==
  /\ DynCanAdd
  /\ \E op \in {IntV(0), SymV("symtab")} :
       segments' = <<add_dt_symtab(segments[1], op)>>
  /\ called' = Call("add_dt_symtab", 0)
  /\ SegUnchanged

DynAddDtHash ==
  /\ DynCanAdd
  /\ segments' = <<add_dt_hash(segments[1], SymV("hash"))>>
  /\ called' = Call("add_dt_hash", 0)
  /\ SegUnchanged

DynAddDtNeeded ==
  /\ DynCanAdd
  /\ \E j \in 1..Len(LibPool) :
       segments' = <<add_dt_needed(segments[1], get_library_name(LibPool[j]))>>
  /\ called' = Call("add_dt_needed", 0)
  /\ SegUnchanged

\* The composition main makes for a sorted library list.
DynCompose ==
  /\ pc = "dynamic" /\ called = Call("init", 0)
  /\ \E libs \in LibChoices :
       /\ libraries' = libs
       /\ segments' = <<compose_segments(libs).dynamic>>
  /\ pc' = "composed"
  /\ called' = Call("compose", 0)
  /\ UNCHANGED <<platVars, varVars, ii, prev, merged, sections, seg, bss, output, objects>>

NextDynamic == DynAddDtSymtab \/ DynAddDtHash \/ DynAddDtNeeded \/ DynCompose

SpecDynamic == InitDynamic /\ [][NextDynamic]_vars

\* The entries of the dynamic segment: consecutive pairs of variables.
DynamicEntry(e) ==
  [d_tag |-> segments[1].data[2 * e - 1], d_un |-> segments[1].data[2 * e]]

DynamicCount == Len(segments[1].data) \div 2

\* The values of the DT_NEEDED entries, in segment order.
NeededValues ==
  LET idx == SelectSeq([e \in 1..DynamicCount |-> e],
                       LAMBDA e : DynamicEntry(e).d_tag.value = IntV(1))
  IN [j \in 1..Len(idx) |-> DynamicEntry(idx[j]).d_un.value]

\* C27: the dynamic segment is a sequence of tag/value pairs of address
\* width whose last three are DT_STRTAB, DT_DEBUG, DT_NULL, every other one an
\* added DT_NEEDED, DT_HASH or DT_SYMTAB entry in front of them; after
\* composition the DT_NEEDED entries are one per library, in the order of the
\* sorted library list.
C27_DynamicLayout ==
  LET n == DynamicCount
  IN /\ Len(segments[1].data) = 2 * n /\ n >= 3
     /\ \A e \in 1..n :
          /\ DynamicEntry(e).d_tag.size = Addr /\ DynamicEntry(e).d_un.size = Addr
          /\ DynamicEntry(e).d_tag.value.t = "int"
     /\ DynamicEntry(n).d_tag.value = IntV(0)
     /\ DynamicEntry(n - 1).d_tag.value = IntV(21)
     /\ DynamicEntry(n - 2).d_tag.value = IntV(5)
     /\ \A e \in 1..(n - 3) : DynamicEntry(e).d_tag.value \in {IntV(1), IntV(4), IntV(6)}
     /\ pc = "composed" =>
          NeededValues =
            [j \in 1..Len(libraries) |->
               SymV("strtab_" \o labelify(get_library_name(libraries[j])) \o " - strtab")]

\* The composition on FreeBSD with two libraries: add_dt_symtab, add_dt_hash
\* and two add_dt_needed calls were made on the segment.
C27_Witness ==
  /\ pc = "composed" /\ Len(libraries) = 2 /\ osname_is_freebsd
  /\ DynamicCount = 7 /\ Len(NeededValues) = 2
  /\ DynamicEntry(3).d_tag.value = IntV(4) /\ DynamicEntry(4).d_tag.value = IntV(6)


----------------------------------------------------------------------------
(* Specification of PlatformVar.get and replace_platform_variable *)

\* What os.uname() may report.
OsNames == {"Linux", "FreeBSD", "Darwin"}
OsArchs == {"i686", "i386", "x86_64", "amd64", "armv7l"}

GetNames == DOMAIN initial_platform_variables \cup {"nonexistent"}
ReplaceNames == {"phdr_count", "align", "interp"}
ReplaceValues == {4, 7}

InitPlatform ==
  /\ osname \in OsNames /\ osarch \in OsArchs
  /\ platform_variables = initial_platform_variables
  /\ pc = "platform"
  /\ avar = Idle /\ bytestream = <<>> /\ rvar = Idle
  /\ segments = <<>> /\ ii = 0 /\ prev = <<>> /\ merged = [i |-> -1, k |-> 0]
  /\ libraries = <<>> /\ objects = <<>>
  /\ sections = <<>> /\ seg = Idle /\ bss = Idle /\ output = Idle
  /\ called = Call("init", "")

\* PlatformVar(name).get(): output is the value returned, NoneV for the
\* RuntimeError.
PlatformGet ==
  /\ pc = "platform"
  /\ \E name \in GetNames :
       /\ output' = PlatformVarGet(name)
       /\ called' = Call("get", name)
  /\ UNCHANGED <<platVars, pc, varVars, mergeVars, libraries, sections, seg, bss, objects>>

\* replace_platform_variable(name, op)
PlatformReplace ==
  /\ pc = "platform"
  /\ \E name \in ReplaceNames, op \in ReplaceValues :
       /\ platform_variables' = replace_platform_variable(platform_variables, name, op)
       /\ called' = Call("replace", name)
  /\ output' = Idle
  /\ UNCHANGED <<osname, osarch, pc, varVars, mergeVars, libraries, sections, seg, bss,
                 objects>>

NextPlatform == PlatformGet \/ PlatformReplace

SpecPlatform == InitPlatform /\ [][NextPlatform]_vars

\* The keys the mapping leads to from k, nearest first.
RECURSIVE MappingChain(_)
MappingChain(k) ==
  IF k \in DOMAIN platform_mapping
  THEN <<platform_mapping[k]>> \o MappingChain(platform_mapping[k])
  ELSE <<>>

\* The keys get tries, in order.
LookupKeys ==
  LET os_chain == MappingChain(osname)
      arch_chain == MappingChain(osarch)
      last(k, chain) == IF chain = <<>> THEN k ELSE chain[Len(chain)]
  IN <<osname>> \o os_chain \o <<osarch>> \o arch_chain
     \o <<last(osname, os_chain) \o "-" \o last(osarch, arch_chain), "default">>

\* C28: get returns the binding of the first of the keys OS name, its chain,
\* architecture, its chain, OS-bits, "default" that the variable binds, and
\* raises when the name is unknown or none of them is bound; a variable that
\* was replaced is bound to the replacement on every platform.
C28_FirstMatchingKey ==
  called.op = "get" =>
    IF called.n \notin DOMAIN platform_variables THEN output = NoneV
    ELSE LET var == platform_variables[called.n]
             hit == {j \in 1..Len(LookupKeys) : LookupKeys[j] \in DOMAIN var}
         IN /\ hit = {} => output = NoneV
            /\ hit # {} => output = var[LookupKeys[CHOOSE j \in hit : \A x \in hit : j <= x]]
            /\ DOMAIN var = {"default"} => output = var["default"]

\* align on i686 is the binding of ia32, not that of 32-bit; and a replaced
\* variable read where it had no binding before.
C28_Witness ==
  /\ called = Call("get", "interp") /\ osname = "Darwin"
  /\ output = IntV(7)
  /\ PlatformVarGet("align") = IntV(1) /\ osarch = "i686"


----------------------------------------------------------------------------
(* Claims about the label lists of one AssemblerVariable *)

NoDuplicates(l) == \A i, j \in DOMAIN l : l[i] = l[j] => i = j

\* C29: under add_label_pre, add_label_post, remove_label_pre and
\* remove_label_post neither label list holds a label twice, and the label
\* given to remove_label_pre (remove_label_post) is not in label_pre
\* (label_post) afterwards.
C29_LabelListsUnique ==
  pc = "var" =>
    /\ NoDuplicates(avar.label_pre) /\ NoDuplicates(avar.label_post)
    /\ called.op = "remove_label_pre" => called.n \notin Range(avar.label_pre)
    /\ called.op = "remove_label_post" => called.n \notin Range(avar.label_post)


----------------------------------------------------------------------------
(* Claims about a merge that finds no overlap *)

SameVariable(a, b) ==
  /\ a.size = b.size /\ a.value = b.value /\ a.name = b.name /\ a.desc = b.desc
  /\ a.original_size = b.original_size
  /\ a.label_pre = b.label_pre /\ a.label_post = b.label_post

SameVariables(a, b) ==
  Len(a.data) = Len(b.data) /\ \A j \in 1..Len(a.data) : SameVariable(a.data[j], b.data[j])

\* C30: when A.merge(B) returns False, A and B hold the same variables in
\* the same order as before the call, each with the same size, value, name,
\* description, original_size and label lists.
C30_NoOverlapNoChange ==
  (merged.i >= 0 /\ merged.k = 0) =>
    /\ Len(segments) = Len(prev)
    /\ SameVariables(segments[merged.i + 1], MergeA)
    /\ SameVariables(segments[merged.i + 2], MergeB)

\* merge returned False on two segments whose tail and head were both
\* deconstructed into more bytes than they have variables.
C30_Witness ==
  /\ merged.i >= 0 /\ merged.k = 0
  /\ Len(MergeTail) > Len(MergeA.data) /\ Len(MergeHead) > Len(MergeB.data)

====
